---- MODULE Spec2Model ----
(***************************************************************************)
(* A model of the liath-rs core: the AuthManager (src/src/auth/manager.rs), *)
(* the NamespaceManager (src/src/core/namespace.rs) and the QueryExecutor  *)
(* with its Lua runtime (src/src/query/executor.rs, src/src/lua/vm.rs).    *)
(*                                                                         *)
(* The specifications share the variables:                                 *)
(*   AuthSpec     the AuthManager API called in any order;                 *)
(*   NsSpec       the NamespaceManager API called in any order, with the   *)
(*                manager dropped and constructed again over the same data *)
(*                directory;                                               *)
(*   CatalogSpec  execute calls made one after another, their scripts      *)
(*                calling every function of the catalog;                   *)
(*   Spec         threads calling QueryExecutor::execute on one executor   *)
(*                at any time;                                             *)
(*   KvSpec       put, get and delete on the namespaces' key-value stores; *)
(*   ReturnSpec   execute of scripts with each kind of final value;        *)
(*   JsonSpec     the JSON conversion of script values and back;           *)
(*   DocSpec      store_with_embedding, semantic_search, put and delete;   *)
(*   EmbedSpec    threads generating embeddings through each entry point;  *)
(*   ScanSpec     scan over keys written through the byte-string API;      *)
(*   ValidateSpec the script validator applied to short scripts;           *)
(*   TableSpec    threads in the typed API, one lock step at a time;       *)
(*   LockSpec     the lock acquisitions of execute, of the bound functions *)
(*                and of the typed API.                                    *)
(***************************************************************************)
EXTENDS Integers, FiniteSets, Sequences, TLC

VARIABLES
    user_permissions,   \* AuthManager.user_permissions : id -> set of permissions
    auth_store,         \* AuthManager.store and the records persisted in it
    ever_added,         \* ghost: the ids add_user was ever called with
    namespaces,         \* NamespaceManager.namespaces : name -> Namespace
    metadata_db,        \* NamespaceManager.metadata_db : name -> NamespaceMetadata
    dirs,               \* the namespace directories under data_dir
    deleted,            \* ghost: names deleted with success and not created since
    last,               \* ghost: the last API call and what it returned
    lua_readers,        \* the threads holding a read guard of QueryExecutor.lua_vm
    globals,            \* the globals table of LuaVM.lua
    files,              \* the blobs FileStorage holds
    installed_packages, \* LuaVM.installed_packages
    pc,                 \* per thread: where its execute call is
    principal,          \* per thread: the user_id of its execute call
    result,             \* per thread: what its last execute call returned
    call,               \* ghost: the last call a script made
    wrote               \* per thread: ghost, the puts of its script that no
                        \* later call has overwritten or deleted

authVars == <<user_permissions, auth_store, ever_added>>
nsVars == <<namespaces, metadata_db, dirs, deleted>>
execVars == <<lua_readers, globals, files, installed_packages, pc, principal,
              result, call, wrote>>
vars == <<user_permissions, auth_store, ever_added,
          namespaces, metadata_db, dirs, deleted, last,
          lua_readers, globals, files, installed_packages, pc, principal,
          result, call, wrote>>

----------------------------------------------------------------------------
(* Finite maps: a HashMap is a function whose domain is its key set.       *)

EmptyMap == <<>>

MapPut(m, k, v) == [x \in (DOMAIN m) \cup {k} |-> IF x = k THEN v ELSE m[x]]

MapDel(m, k) == [x \in (DOMAIN m) \ {k} |-> m[x]]

----------------------------------------------------------------------------
(* AuthManager                                                             *)

Users == {"admin", "alice"}

AuthPerms == {"select", "insert"}

\* is_authorized: set membership, false when the id has no entry
is_authorized(user_id, permission) ==
    IF user_id \in DOMAIN user_permissions
    THEN permission \in user_permissions[user_id]
    ELSE FALSE

\* persist_user: writes the user's record when a store is attached and the
\* user has an entry; io_ok is whether the store's put succeeds
persist_user(perms, store, user_id, io_ok) ==
    IF store.enabled /\ user_id \in DOMAIN perms
    THEN IF io_ok
         THEN [store |-> [store EXCEPT !.recs =
                            MapPut(store.recs, user_id,
                                   [user_id |-> user_id, permissions |-> perms[user_id]])],
               ok |-> TRUE]
         ELSE [store |-> store, ok |-> FALSE]
    ELSE [store |-> store, ok |-> TRUE]

\* delete_user_from_store
delete_user_from_store(store, user_id, io_ok) ==
    IF store.enabled
    THEN IF io_ok
         THEN [store |-> [store EXCEPT !.recs = MapDel(store.recs, user_id)], ok |-> TRUE]
         ELSE [store |-> store, ok |-> FALSE]
    ELSE [store |-> store, ok |-> TRUE]

\* load_all: one entry per persisted record
load_all(store) ==
    IF store.enabled
    THEN [u \in DOMAIN store.recs |-> store.recs[u].permissions]
    ELSE EmptyMap

\* add_user: inserts (replacing any entry); a persist failure is only logged
add_user(user_id, permissions) ==
    \E io_ok \in BOOLEAN :
        LET up == MapPut(user_permissions, user_id, permissions)
            r == persist_user(up, auth_store, user_id, io_ok)
        IN /\ user_permissions' = up
           /\ auth_store' = r.store
           /\ ever_added' = ever_added \cup {user_id}
           /\ last' = [op |-> "add_user", id |-> user_id, ok |-> TRUE,
                       perms |-> {}, faulted |-> last.faulted \/ ~r.ok]
           /\ UNCHANGED nsVars

\* a plausible slip: the user leaves the table but its record stays in the store
remove_user_keeps_record(user_id) ==
    IF user_id \notin DOMAIN user_permissions
    THEN /\ last' = [op |-> "remove_user", id |-> user_id, ok |-> FALSE,
                     perms |-> {}, faulted |-> last.faulted]
         /\ UNCHANGED <<authVars, nsVars>>
    ELSE /\ user_permissions' = MapDel(user_permissions, user_id)
         /\ last' = [op |-> "remove_user", id |-> user_id, ok |-> TRUE,
                     perms |-> {}, faulted |-> last.faulted]
         /\ UNCHANGED <<auth_store, ever_added, nsVars>>

\* remove_user
remove_user(user_id) ==
    \E io_ok \in BOOLEAN :
        IF user_id \notin DOMAIN user_permissions
        THEN /\ last' = [op |-> "remove_user", id |-> user_id, ok |-> FALSE,
                       perms |-> {}, faulted |-> last.faulted]
             /\ UNCHANGED <<authVars, nsVars>>
        ELSE LET r == delete_user_from_store(auth_store, user_id, io_ok)
             IN /\ user_permissions' = MapDel(user_permissions, user_id)
                /\ auth_store' = r.store
                /\ last' = [op |-> "remove_user", id |-> user_id, ok |-> r.ok,
                       perms |-> {}, faulted |-> last.faulted \/ ~r.ok]
                /\ UNCHANGED <<ever_added, nsVars>>

\* a plausible slip: the new permissions are added to the old set (no clear)
update_permissions_merge(user_id, permissions) ==
    \E io_ok \in BOOLEAN :
        IF user_id \notin DOMAIN user_permissions
        THEN /\ last' = [op |-> "update_permissions", id |-> user_id, ok |-> FALSE,
                         perms |-> permissions, faulted |-> last.faulted]
             /\ UNCHANGED <<authVars, nsVars>>
        ELSE LET up == [user_permissions EXCEPT ![user_id] = @ \cup permissions]
                 r == persist_user(up, auth_store, user_id, io_ok)
             IN /\ user_permissions' = up
                /\ auth_store' = r.store
                /\ last' = [op |-> "update_permissions", id |-> user_id, ok |-> r.ok,
                            perms |-> permissions, faulted |-> last.faulted \/ ~r.ok]
                /\ UNCHANGED <<ever_added, nsVars>>

\* update_permissions: clear, then extend
update_permissions(user_id, permissions) ==
    \E io_ok \in BOOLEAN :
        IF user_id \notin DOMAIN user_permissions
        THEN /\ last' = [op |-> "update_permissions", id |-> user_id, ok |-> FALSE,
                       perms |-> permissions, faulted |-> last.faulted]
             /\ UNCHANGED <<authVars, nsVars>>
        ELSE LET up == [user_permissions EXCEPT ![user_id] = {} \cup permissions]
                 r == persist_user(up, auth_store, user_id, io_ok)
             IN /\ user_permissions' = up
                /\ auth_store' = r.store
                /\ last' = [op |-> "update_permissions", id |-> user_id, ok |-> r.ok,
                       perms |-> permissions, faulted |-> last.faulted \/ ~r.ok]
                /\ UNCHANGED <<ever_added, nsVars>>

\* a plausible slip: the entry is created when missing (entry().or_default())
add_permission_upsert(user_id, permission) ==
    /\ user_permissions' =
          MapPut(user_permissions, user_id,
                 (IF user_id \in DOMAIN user_permissions
                  THEN user_permissions[user_id] ELSE {}) \cup {permission})
    /\ last' = [op |-> "add_permission", id |-> user_id, ok |-> TRUE,
                       perms |-> {permission}, faulted |-> last.faulted]
    /\ UNCHANGED <<auth_store, ever_added, nsVars>>

\* add_permission
add_permission(user_id, permission) ==
    \E io_ok \in BOOLEAN :
        IF user_id \notin DOMAIN user_permissions
        THEN /\ last' = [op |-> "add_permission", id |-> user_id, ok |-> FALSE,
                       perms |-> {permission}, faulted |-> last.faulted]
             /\ UNCHANGED <<authVars, nsVars>>
        ELSE LET up == [user_permissions EXCEPT ![user_id] = @ \cup {permission}]
                 r == persist_user(up, auth_store, user_id, io_ok)
             IN /\ user_permissions' = up
                /\ auth_store' = r.store
                /\ last' = [op |-> "add_permission", id |-> user_id, ok |-> r.ok,
                       perms |-> {permission}, faulted |-> last.faulted \/ ~r.ok]
                /\ UNCHANGED <<ever_added, nsVars>>

\* a plausible slip: the whole set is emptied (clear for remove)
remove_permission_clear(user_id, permission) ==
    \E io_ok \in BOOLEAN :
        IF user_id \notin DOMAIN user_permissions
        THEN /\ last' = [op |-> "remove_permission", id |-> user_id, ok |-> FALSE,
                         perms |-> {permission}, faulted |-> last.faulted]
             /\ UNCHANGED <<authVars, nsVars>>
        ELSE LET up == [user_permissions EXCEPT ![user_id] = {}]
                 r == persist_user(up, auth_store, user_id, io_ok)
             IN /\ user_permissions' = up
                /\ auth_store' = r.store
                /\ last' = [op |-> "remove_permission", id |-> user_id, ok |-> r.ok,
                            perms |-> {permission}, faulted |-> last.faulted \/ ~r.ok]
                /\ UNCHANGED <<ever_added, nsVars>>

\* remove_permission
remove_permission(user_id, permission) ==
    \E io_ok \in BOOLEAN :
        IF user_id \notin DOMAIN user_permissions
        THEN /\ last' = [op |-> "remove_permission", id |-> user_id, ok |-> FALSE,
                       perms |-> {permission}, faulted |-> last.faulted]
             /\ UNCHANGED <<authVars, nsVars>>
        ELSE LET up == [user_permissions EXCEPT ![user_id] = @ \ {permission}]
                 r == persist_user(up, auth_store, user_id, io_ok)
             IN /\ user_permissions' = up
                /\ auth_store' = r.store
                /\ last' = [op |-> "remove_permission", id |-> user_id, ok |-> r.ok,
                       perms |-> {permission}, faulted |-> last.faulted \/ ~r.ok]
                /\ UNCHANGED <<ever_added, nsVars>>

\* with_persistence over the directory of the current store: the old manager
\* is dropped and the new one loads every persisted record
with_persistence ==
    /\ auth_store.enabled
    /\ user_permissions' = load_all(auth_store)
    /\ last' = [op |-> "with_persistence", id |-> "", ok |-> TRUE,
                perms |-> {}, faulted |-> FALSE]
    /\ UNCHANGED <<auth_store, ever_added, nsVars>>


----------------------------------------------------------------------------
(* NamespaceManager                                                        *)

MaxVectorId == 1

Names == {"docs", "logs"}

\* a key is the tuple of the parts its text is formatted from
Keys == {<<"k1">>}

Values == {"a", "b"}

\* the dimensions the repository's tests create namespaces with
Dimensions == {128, 384}

VectorIds == 1..MaxVectorId

\* the (dimensions, metric, scalar) namespaces are created with; the typed
\* API takes any usearch::MetricKind, "IP" being one the manager has no
\* arm for
Shapes == {<<128, "Cos", "F32">>, <<384, "L2sq", "F16">>, <<128, "IP", "F32">>}

\* metric_to_string
metric_to_string(metric) ==
    CASE metric = "Cos" -> "cosine"
      [] metric = "L2sq" -> "euclidean"
      [] OTHER -> "cosine"

\* scalar_to_string
scalar_to_string(scalar) ==
    CASE scalar = "F32" -> "f32"
      [] scalar = "F16" -> "f16"
      [] OTHER -> "f32"

\* parse_metric: "error" stands for Err(Unknown metric kind)
parse_metric(s) ==
    CASE s \in {"cosine", "Cos"} -> "Cos"
      [] s \in {"euclidean", "L2sq"} -> "L2sq"
      [] OTHER -> "error"

\* parse_scalar
parse_scalar(s) ==
    CASE s \in {"f32", "F32"} -> "F32"
      [] s \in {"f16", "F16"} -> "F16"
      [] OTHER -> "error"

\* a directory create_dir_all has just made
EmptyDir == [kv |-> EmptyMap, idx |-> [exists |-> FALSE, ids |-> {}]]

\* UsearchWrapper::new(dimensions, metric, scalar): an index holding nothing
NewIndex(dimensions, metric, scalar) ==
    [dimensions |-> dimensions, metric |-> metric, scalar |-> scalar, vectors |-> {}]

\* the manager is usable unless its construction failed
manager_alive == ~(last.op = "new" /\ ~last.ok)

\* get_namespace: the set holding the namespace, empty for Err(not found)
get_namespace(name) ==
    IF name \in DOMAIN namespaces THEN {namespaces[name]} ELSE {}

\* namespace_exists
namespace_exists(name) == name \in DOMAIN namespaces

\* list_namespaces
list_namespaces == DOMAIN namespaces

\* FjallWrapper::get through the handle of namespace name: the set holding
\* the value, empty when the namespace or the key is absent
db_get(name, key) ==
    IF name \in DOMAIN namespaces /\ name \in DOMAIN dirs /\ key \in DOMAIN dirs[name].kv
    THEN {dirs[name].kv[key]}
    ELSE {}

\* a plausible slip: the config record is never written
persist_metadata_dropped(name, metadata) == metadata_db

\* persist_metadata
persist_metadata(name, metadata) == MapPut(metadata_db, name, metadata)

\* delete_metadata
delete_metadata(name) == MapDel(metadata_db, name)

\* a plausible slip: the existence check is missing, the entry is replaced
create_namespace_overwrite(name, dimensions, metric, scalar, fail) ==
    /\ manager_alive
    /\ fail = "none"
    /\ dirs' = IF name \in DOMAIN dirs THEN dirs ELSE MapPut(dirs, name, EmptyDir)
    /\ metadata_db' = persist_metadata(name,
                         [name |-> name, dimensions |-> dimensions,
                          metric |-> metric_to_string(metric),
                          scalar |-> scalar_to_string(scalar)])
    /\ namespaces' = MapPut(namespaces, name, NewIndex(dimensions, metric, scalar))
    /\ deleted' = deleted \ {name}
    /\ last' = [op |-> "create_namespace", name |-> name, ok |-> TRUE]
    /\ UNCHANGED authVars

\* create_namespace; fail names the step whose I/O fails:
\* "dir" create_dir_all, "persist" persist_metadata, "none" nothing
create_namespace(name, dimensions, metric, scalar, fail) ==
    /\ manager_alive
    /\ IF name \in DOMAIN namespaces
       THEN /\ fail = "none"
            /\ last' = [op |-> "create_namespace", name |-> name, ok |-> FALSE]
            /\ UNCHANGED <<authVars, nsVars>>
       ELSE IF fail = "dir"
       THEN /\ last' = [op |-> "create_namespace", name |-> name, ok |-> FALSE]
            /\ UNCHANGED <<authVars, nsVars>>
       ELSE \* create_dir_all keeps a directory that is already there, and
            \* FjallWrapper::new opens what it holds
            /\ dirs' = IF name \in DOMAIN dirs THEN dirs ELSE MapPut(dirs, name, EmptyDir)
            /\ IF fail = "persist"
               THEN /\ last' = [op |-> "create_namespace", name |-> name, ok |-> FALSE]
                    /\ UNCHANGED <<authVars, namespaces, metadata_db, deleted>>
               ELSE /\ metadata_db' = persist_metadata(name,
                                         [name |-> name, dimensions |-> dimensions,
                                          metric |-> metric_to_string(metric),
                                          scalar |-> scalar_to_string(scalar)])
                    /\ namespaces' = MapPut(namespaces, name,
                                            NewIndex(dimensions, metric, scalar))
                    /\ deleted' = deleted \ {name}
                    /\ last' = [op |-> "create_namespace", name |-> name, ok |-> TRUE]
                    /\ UNCHANGED authVars

\* a plausible slip: the entry is looked up but never removed from the table
delete_namespace_keep(name, fail) ==
    /\ manager_alive
    /\ name \in DOMAIN namespaces
    /\ fail = "none"
    /\ metadata_db' = delete_metadata(name)
    /\ dirs' = MapDel(dirs, name)
    /\ deleted' = deleted \cup {name}
    /\ last' = [op |-> "delete_namespace", name |-> name, ok |-> TRUE]
    /\ UNCHANGED <<authVars, namespaces>>

\* delete_namespace; fail names the step whose I/O fails:
\* "metadata" delete_metadata, "dir" remove_dir_all, "none" nothing
delete_namespace(name, fail) ==
    /\ manager_alive
    /\ IF name \notin DOMAIN namespaces
       THEN /\ fail = "none"
            /\ last' = [op |-> "delete_namespace", name |-> name, ok |-> FALSE]
            /\ UNCHANGED <<authVars, nsVars>>
       ELSE /\ namespaces' = MapDel(namespaces, name)
            /\ IF fail = "metadata"
               THEN /\ last' = [op |-> "delete_namespace", name |-> name, ok |-> FALSE]
                    /\ UNCHANGED <<authVars, metadata_db, dirs, deleted>>
               ELSE /\ metadata_db' = delete_metadata(name)
                    /\ IF fail = "dir" /\ name \in DOMAIN dirs
                       THEN /\ last' = [op |-> "delete_namespace", name |-> name, ok |-> FALSE]
                            /\ UNCHANGED <<authVars, dirs, deleted>>
                       ELSE /\ dirs' = MapDel(dirs, name)
                            /\ deleted' = deleted \cup {name}
                            /\ last' = [op |-> "delete_namespace", name |-> name, ok |-> TRUE]
                            /\ UNCHANGED authVars

\* get_namespace(name)?.db.put(key, value)
db_put(name, key, value) ==
    /\ manager_alive
    /\ IF name \in DOMAIN namespaces
       THEN /\ dirs' = [dirs EXCEPT ![name].kv = MapPut(@, key, value)]
            /\ last' = [op |-> "put", name |-> "", ok |-> TRUE]
       ELSE /\ last' = [op |-> "put", name |-> "", ok |-> FALSE]
            /\ UNCHANGED dirs
    /\ UNCHANGED <<authVars, namespaces, metadata_db, deleted>>

\* get_namespace(name)?.db.delete(key)
db_delete(name, key) ==
    /\ manager_alive
    /\ IF name \in DOMAIN namespaces
       THEN /\ dirs' = [dirs EXCEPT ![name].kv = MapDel(@, key)]
            /\ last' = [op |-> "delete", name |-> "", ok |-> TRUE]
       ELSE /\ last' = [op |-> "delete", name |-> "", ok |-> FALSE]
            /\ UNCHANGED dirs
    /\ UNCHANGED <<authVars, namespaces, metadata_db, deleted>>

\* get_namespace(name)?.vector_db.add(id, vector), the vector of length dim:
\* the index takes only vectors of its own dimensionality
add_vector(name, id, dim) ==
    /\ manager_alive
    /\ IF name \in DOMAIN namespaces /\ namespaces[name].dimensions = dim
       THEN /\ namespaces' = [namespaces EXCEPT ![name].vectors = @ \cup {id}]
            /\ last' = [op |-> "add_vector", name |-> "", ok |-> TRUE]
       ELSE /\ last' = [op |-> "add_vector", name |-> "", ok |-> FALSE]
            /\ UNCHANGED namespaces
    /\ UNCHANGED <<authVars, metadata_db, dirs, deleted>>

\* UsearchWrapper::save of namespace n's index to <data_dir>/n/vectors.idx
SaveIndex(d, n) ==
    [d EXCEPT ![n].idx = [exists |-> TRUE, ids |-> namespaces[n].vectors]]

RECURSIVE SaveIndexes(_, _)
SaveIndexes(d, ns) ==
    IF ns = {} THEN d
    ELSE LET n == CHOOSE x \in ns : TRUE
         IN SaveIndexes(SaveIndex(d, n), ns \ {n})

\* save_all: the indexes are saved in the table's iteration order until one
\* save fails (at namespace failed_at, those of saved_before already written)
save_all(failed_at, saved_before) ==
    /\ manager_alive
    /\ failed_at \in DOMAIN namespaces \cup {""}
    /\ IF failed_at = ""
       THEN /\ saved_before = DOMAIN namespaces
            /\ dirs' = SaveIndexes(dirs, DOMAIN namespaces)
            /\ last' = [op |-> "save_all", name |-> "", ok |-> TRUE]
       ELSE /\ saved_before \subseteq DOMAIN namespaces \ {failed_at}
            /\ dirs' = SaveIndexes(dirs, saved_before)
            /\ last' = [op |-> "save_all", name |-> "", ok |-> FALSE]
    /\ UNCHANGED <<authVars, namespaces, metadata_db, deleted>>

\* save_namespace: saves the index of a namespace that exists, Ok otherwise
save_namespace(name, io_ok) ==
    /\ manager_alive
    /\ IF name \in DOMAIN namespaces
       THEN IF io_ok
            THEN /\ dirs' = SaveIndex(dirs, name)
                 /\ last' = [op |-> "save_namespace", name |-> "", ok |-> TRUE]
            ELSE /\ last' = [op |-> "save_namespace", name |-> "", ok |-> FALSE]
                 /\ UNCHANGED dirs
       ELSE /\ io_ok
            /\ last' = [op |-> "save_namespace", name |-> "", ok |-> TRUE]
            /\ UNCHANGED dirs
    /\ UNCHANGED <<authVars, namespaces, metadata_db, deleted>>

\* the Namespace load_existing builds from one config record; the snapshot
\* is loaded when the file exists and the load does not fail
LoadedNamespace(rec, dir, load_fails) ==
    [dimensions |-> rec.dimensions,
     metric |-> parse_metric(rec.metric),
     scalar |-> parse_scalar(rec.scalar),
     vectors |-> IF dir.idx.exists /\ ~load_fails THEN dir.idx.ids ELSE {}]

\* a plausible slip: a snapshot that fails to load aborts the construction
load_existing_failfast(load_fail, open_fail) ==
    /\ load_fail \subseteq {n \in DOMAIN metadata_db : n \in DOMAIN dirs /\ dirs[n].idx.exists}
    /\ open_fail = ""
    /\ IF load_fail # {}
       THEN /\ namespaces' = EmptyMap
            /\ last' = [op |-> "new", name |-> "", ok |-> FALSE,
                        load_fail |-> load_fail,
                        open_fail |-> open_fail]
       ELSE /\ namespaces' = [n \in DOMAIN metadata_db |->
                                 LoadedNamespace(metadata_db[n], dirs[n], FALSE)]
            /\ last' = [op |-> "new", name |-> "", ok |-> TRUE,
                        load_fail |-> load_fail,
                        open_fail |-> open_fail]
    /\ UNCHANGED <<authVars, metadata_db, dirs, deleted>>

\* NamespaceManager::new over the same data_dir once the old manager is
\* dropped, that is load_existing: load_fail are the namespaces whose
\* snapshot fails to load, open_fail the record (if any) whose parse or
\* FjallWrapper::new fails
load_existing(load_fail, open_fail) ==
    /\ load_fail \subseteq {n \in DOMAIN metadata_db : n \in DOMAIN dirs /\ dirs[n].idx.exists}
    /\ open_fail \in DOMAIN metadata_db \cup {""}
    /\ LET bad == {n \in DOMAIN metadata_db :
                      \/ parse_metric(metadata_db[n].metric) = "error"
                      \/ parse_scalar(metadata_db[n].scalar) = "error"
                      \/ n = open_fail}
           opened == [n \in DOMAIN metadata_db \cup DOMAIN dirs |->
                         IF n \in DOMAIN dirs THEN dirs[n] ELSE EmptyDir]
       IN IF bad # {}
          THEN /\ namespaces' = EmptyMap
               /\ last' = [op |-> "new", name |-> "", ok |-> FALSE,
                           load_fail |-> load_fail,
                           open_fail |-> open_fail]
               /\ UNCHANGED dirs
          ELSE /\ dirs' = opened
               /\ namespaces' = [n \in DOMAIN metadata_db |->
                                    LoadedNamespace(metadata_db[n], opened[n],
                                                    n \in load_fail)]
               /\ last' = [op |-> "new", name |-> "", ok |-> TRUE,
                           load_fail |-> load_fail,
                           open_fail |-> open_fail]
    /\ UNCHANGED <<authVars, metadata_db, deleted>>


----------------------------------------------------------------------------
(* LuaVM and QueryExecutor                                                 *)

\* the threads that call QueryExecutor::execute on one executor
Threads == {1, 2}

\* the user ids execute is called with; "agent" is never added to the
\* AuthManager (examples/programmable_memory.rs runs its scripts as "agent")
Principals == {"admin", "agent"}

\* the permissions EmbeddedLiath::new gives "admin"
AdminPermissions ==
    {"select", "insert", "update", "delete", "create_namespace",
     "delete_namespace", "upload_file", "process_file", "generate_embedding",
     "similarity_search"}

\* the namespace, packages and blobs the scripts of the model name
ExecNames == {"docs"}
Packages == {"inspect"}
Blobs == {"blob"}

\* the length of the vectors EmbeddingWrapper::generate returns
EmbeddingDim == 384

\* the names register_db_functions binds
CatalogFns ==
    {"create_namespace", "delete_namespace", "list_namespaces", "select",
     "insert", "update", "delete", "generate_embedding", "upload_file",
     "retrieve_file", "similarity_search", "install_package", "list_packages",
     "add_vector", "store_document", "semantic_search", "json_encode",
     "json_decode", "insert_json", "select_json", "save", "namespace_exists",
     "uuid", "timestamp", "sleep", "batch_insert", "batch_select", "scan",
     "memory_store", "memory_recall"}

\* the globals LuaVM::new sets itself
VmGlobals == {"print", "uuid", "timestamp", "sleep", "liath"}

\* globals of the Lua standard library that Lua::new() opens
StdGlobals ==
    {"io", "os", "require", "load", "rawset", "getmetatable", "string", "math"}

\* the global names scripts assign
ScriptGlobals == {"secret"}

GlobalNames == CatalogFns \cup VmGlobals \cup StdGlobals \cup ScriptGlobals

\* the values a global holds
Nil == [kind |-> "nil", fn |-> "", user |-> "", by |-> 0, returned |-> FALSE]
StdValue(name) == [kind |-> "std", fn |-> name, user |-> "", by |-> 0, returned |-> FALSE]
HostValue(name) == [kind |-> "host", fn |-> name, user |-> "", by |-> 0, returned |-> FALSE]
\* the closure register_db_functions creates for fn, owning a copy of user_id
BoundValue(fn, user_id) ==
    [kind |-> "bound", fn |-> fn, user |-> user_id, by |-> 0, returned |-> FALSE]
\* a value the script of thread t assigned (by and returned are ghosts:
\* the thread whose execute assigned it, and whether that execute returned)
DataValue(t) == [kind |-> "data", fn |-> "", user |-> "", by |-> t, returned |-> FALSE]

\* what a call of the global gives a script beyond the catalog, after the
\* list of functions LuaValidator flags (blocked_functions)
Capability(name) ==
    CASE name = "io" -> "filesystem"
      [] name = "os" -> "subprocess"
      [] name \in {"require", "load"} -> "dynamic-code-loading"
      [] name \in {"rawset", "getmetatable"} -> "raw-introspection"
      [] OTHER -> "none"

\* the permission each bound function passes to is_authorized, "" for the
\* functions whose closure calls is_authorized nowhere
Permission(fn) ==
    CASE fn \in {"create_namespace", "delete_namespace", "list_namespaces",
                 "select", "insert", "update", "delete", "generate_embedding",
                 "upload_file", "retrieve_file", "similarity_search",
                 "install_package", "list_packages"} -> fn
      [] fn \in {"add_vector", "store_document", "insert_json", "batch_insert",
                 "memory_store"} -> "insert"
      [] fn \in {"select_json", "batch_select", "scan", "memory_recall"} -> "select"
      [] fn = "semantic_search" -> "similarity_search"
      [] fn \in {"json_encode", "json_decode", "save", "namespace_exists",
                 "uuid", "timestamp", "sleep"} -> ""
      [] OTHER -> ""

\* the bound functions by what they do once authorized
PutFns == {"insert", "update", "insert_json", "batch_insert"}
ReadFns == {"select", "select_json", "batch_select", "scan",
            "similarity_search", "semantic_search", "memory_recall"}
PureFns == {"list_namespaces", "generate_embedding", "retrieve_file",
            "list_packages", "json_encode", "json_decode", "namespace_exists",
            "uuid", "timestamp", "sleep"}

\* keys the bindings format
VidxKey(id) == <<"_vidx:", id>>
MemContentKey(id) == <<"mem:", id, ":content">>
MemMetaKey(id) == <<"mem:", id, ":meta">>

\* LuaVM::new: Lua::new() and the globals set after it
LuaVM_new ==
    [g \in GlobalNames |->
        IF g \in VmGlobals THEN HostValue(g)
        ELSE IF g \in StdGlobals THEN StdValue(g)
        ELSE Nil]

\* call when no script has called anything yet
NoCall == [kind |-> "none", checked |-> FALSE, authorized |-> FALSE,
           outcome |-> "", own |-> TRUE]

\* execute has passed register_db_functions and its script is running
Evaluating(t) == pc[t] = "eval"

\* the authorization check at the head of a closure fails
Denied(c) == Permission(c.fn) # "" /\ ~is_authorized(c.user, Permission(c.fn))

\* the end of one invocation of closure c by the script of thread t: an
\* error the script does not catch with pcall aborts the script
Invoked(t, c, outcome, caught) ==
    /\ call' = [kind |-> "bound", checked |-> Permission(c.fn) # "",
                authorized |-> is_authorized(c.user, Permission(c.fn)),
                outcome |-> outcome, own |-> c.user = principal[t]]
    /\ pc' = [pc EXCEPT ![t] = IF outcome = "ok" \/ caught THEN "eval" ELSE "raised"]


\* the metric and scalar names the create_namespace binding accepts
binding_metric(s) ==
    CASE s = "cosine" -> "Cos"
      [] s = "euclidean" -> "L2sq"
      [] OTHER -> "error"

binding_scalar(s) ==
    CASE s = "f32" -> "F32"
      [] s = "f16" -> "F16"
      [] OTHER -> "error"

\* the (dimensions, metric, scalar) arguments scripts pass to create_namespace
ScriptShapes == {<<384, "euclidean", "f16">>, <<128, "dot", "f32">>}

\* a binding that changes nothing in the namespaces returns Ok or Err
Returns(ok) ==
    /\ last' = [op |-> "call", name |-> "", ok |-> ok]
    /\ UNCHANGED <<authVars, nsVars>>

\* the body of store_document after the authorization check: the text is
\* put before the vector is added, the mapping after
store_document(name, id, key, text) ==
    /\ manager_alive
    /\ IF name \notin DOMAIN namespaces
       THEN /\ last' = [op |-> "store_document", name |-> "", ok |-> FALSE]
            /\ UNCHANGED <<dirs, namespaces>>
       ELSE IF namespaces[name].dimensions # EmbeddingDim
       THEN /\ dirs' = [dirs EXCEPT ![name].kv = MapPut(@, key, text)]
            /\ last' = [op |-> "store_document", name |-> "", ok |-> FALSE]
            /\ UNCHANGED namespaces
       ELSE /\ dirs' = [dirs EXCEPT ![name].kv =
                           MapPut(MapPut(@, key, text), VidxKey(id), key)]
            /\ namespaces' = [namespaces EXCEPT ![name].vectors = @ \cup {id}]
            /\ last' = [op |-> "store_document", name |-> "", ok |-> TRUE]
    /\ UNCHANGED <<authVars, metadata_db, deleted>>

\* the body of memory_store after the authorization check; id is the clock
\* reading the binding takes as the memory's id
memory_store(name, id, content) ==
    /\ manager_alive
    /\ IF name \notin DOMAIN namespaces
       THEN /\ last' = [op |-> "memory_store", name |-> "", ok |-> FALSE]
            /\ UNCHANGED <<dirs, namespaces>>
       ELSE /\ dirs' = [dirs EXCEPT ![name].kv =
                           MapPut(MapPut(@, MemContentKey(id), content),
                                  MemMetaKey(id), "meta")]
            /\ IF namespaces[name].dimensions # EmbeddingDim
               THEN /\ last' = [op |-> "memory_store", name |-> "", ok |-> FALSE]
                    /\ UNCHANGED namespaces
               ELSE /\ namespaces' = [namespaces EXCEPT ![name].vectors = @ \cup {id}]
                    /\ last' = [op |-> "memory_store", name |-> "", ok |-> TRUE]
    /\ UNCHANGED <<authVars, metadata_db, deleted>>

\* a plausible slip: the authorization check is made after the body has run
BoundCall_check_after(t, g, caught, fns, bad_args, body, wrote_next) ==
    /\ Evaluating(t)
    /\ globals[g].kind = "bound"
    /\ globals[g].fn \in fns
    /\ LET c == globals[g]
       IN IF bad_args
          THEN /\ Invoked(t, c, "error", caught)
               /\ UNCHANGED <<authVars, nsVars, last, files, installed_packages, wrote>>
          ELSE /\ body
               /\ Invoked(t, c, IF Denied(c) THEN "unauthorized"
                                ELSE IF last'.ok THEN "ok" ELSE "error", caught)
               /\ wrote' = wrote_next
    /\ UNCHANGED <<lua_readers, globals, principal, result>>

\* one invocation, by the script of thread t, of the closure global g
\* holds, when that closure was bound for a function of fns: the
\* authorization check where the closure has one, the argument checks,
\* then the body
BoundCall(t, g, caught, fns, bad_args, body, wrote_next) ==
    /\ Evaluating(t)
    /\ globals[g].kind = "bound"
    /\ globals[g].fn \in fns
    /\ LET c == globals[g]
       IN IF Denied(c)
          THEN /\ Invoked(t, c, "unauthorized", caught)
               /\ UNCHANGED <<authVars, nsVars, last, files, installed_packages, wrote>>
          ELSE IF bad_args
          THEN /\ Invoked(t, c, "error", caught)
               /\ UNCHANGED <<authVars, nsVars, last, files, installed_packages, wrote>>
          ELSE /\ body
               /\ Invoked(t, c, IF last'.ok THEN "ok" ELSE "error", caught)
               /\ wrote' = wrote_next
    /\ UNCHANGED <<lua_readers, globals, principal, result>>

call_create_namespace(t, g, caught, name, sh) ==
    BoundCall(t, g, caught, {"create_namespace"},
              binding_metric(sh[2]) = "error" \/ binding_scalar(sh[3]) = "error",
              /\ create_namespace(name, sh[1], binding_metric(sh[2]),
                                  binding_scalar(sh[3]), "none")
              /\ UNCHANGED <<files, installed_packages>>,
              wrote)

call_delete_namespace(t, g, caught, name) ==
    BoundCall(t, g, caught, {"delete_namespace"}, FALSE,
              /\ delete_namespace(name, "none")
              /\ UNCHANGED <<files, installed_packages>>,
              IF name \in DOMAIN namespaces
              THEN [u \in Threads |-> {w \in wrote[u] : w[1] # name}]
              ELSE wrote)

call_put(t, g, caught, name, key, value) ==
    BoundCall(t, g, caught, PutFns, FALSE,
              /\ db_put(name, key, value)
              /\ UNCHANGED <<files, installed_packages>>,
              IF name \in DOMAIN namespaces
              THEN [u \in Threads |->
                       {w \in wrote[u] : ~(w[1] = name /\ w[2] = key)}
                       \cup (IF u = t THEN {<<name, key, value>>} ELSE {})]
              ELSE wrote)

call_delete(t, g, caught, name, key) ==
    BoundCall(t, g, caught, {"delete"}, FALSE,
              /\ db_delete(name, key)
              /\ UNCHANGED <<files, installed_packages>>,
              IF name \in DOMAIN namespaces
              THEN [u \in Threads |->
                       {w \in wrote[u] : ~(w[1] = name /\ w[2] = key)}]
              ELSE wrote)

call_add_vector(t, g, caught, name, id, dim) ==
    BoundCall(t, g, caught, {"add_vector"}, FALSE,
              /\ add_vector(name, id, dim)
              /\ UNCHANGED <<files, installed_packages>>,
              wrote)

call_store_document(t, g, caught, name, id, key, text) ==
    BoundCall(t, g, caught, {"store_document"}, FALSE,
              /\ store_document(name, id, key, text)
              /\ UNCHANGED <<files, installed_packages>>,
              IF name \in DOMAIN namespaces
              THEN [u \in Threads |->
                       {w \in wrote[u] : ~(w[1] = name /\ w[2] = key)}
                       \cup (IF u = t THEN {<<name, key, text>>} ELSE {})]
              ELSE wrote)

call_memory_store(t, g, caught, name, id, content) ==
    BoundCall(t, g, caught, {"memory_store"}, FALSE,
              /\ memory_store(name, id, content)
              /\ UNCHANGED <<files, installed_packages>>,
              wrote)

\* the bindings that read a namespace: Err when it does not exist
call_read(t, g, caught, name) ==
    BoundCall(t, g, caught, ReadFns, FALSE,
              /\ Returns(name \in DOMAIN namespaces)
              /\ UNCHANGED <<files, installed_packages>>,
              wrote)

\* the bindings that touch no namespace; retrieve_file fails on an id
\* FileStorage does not hold
call_pure(t, g, caught, blob) ==
    BoundCall(t, g, caught, PureFns, FALSE,
              /\ Returns(globals[g].fn = "retrieve_file" => blob \in files)
              /\ UNCHANGED <<files, installed_packages>>,
              wrote)

call_upload_file(t, g, caught, blob) ==
    BoundCall(t, g, caught, {"upload_file"}, FALSE,
              /\ Returns(TRUE)
              /\ files' = files \cup {blob}
              /\ UNCHANGED installed_packages,
              wrote)

call_install_package(t, g, caught, package) ==
    BoundCall(t, g, caught, {"install_package"}, FALSE,
              /\ Returns(TRUE)
              /\ installed_packages' = installed_packages \cup {package}
              /\ UNCHANGED files,
              wrote)

\* save: save_all, then AuthManager::flush
call_save(t, g, caught) ==
    BoundCall(t, g, caught, {"save"}, FALSE,
              /\ save_all("", DOMAIN namespaces)
              /\ UNCHANGED <<files, installed_packages>>,
              wrote)

\* the script calls a global of the standard library
call_std(t, g) ==
    /\ Evaluating(t)
    /\ globals[g].kind = "std"
    /\ call' = [kind |-> "std", checked |-> FALSE, authorized |-> FALSE,
                outcome |-> Capability(g), own |-> TRUE]
    /\ UNCHANGED <<authVars, nsVars, last, lua_readers, globals, files,
                   installed_packages, pc, principal, result, wrote>>

\* the script assigns a global: a value of its own, or (from # "") the
\* value global from holds, a bound closure included
assign_global(t, g, from) ==
    /\ Evaluating(t)
    /\ from # "" => globals[from].kind = "bound"
    /\ globals' = [globals EXCEPT ![g] =
                      IF from = "" THEN DataValue(t) ELSE globals[from]]
    /\ UNCHANGED <<authVars, nsVars, last, lua_readers, files,
                   installed_packages, pc, principal, result, call, wrote>>

\* the script reads a global that holds a script's value
read_global(t, g) ==
    /\ Evaluating(t)
    /\ globals[g].kind = "data"
    /\ call' = [kind |-> "read", checked |-> FALSE, authorized |-> FALSE,
                outcome |-> IF globals[g].returned THEN "earlier"
                            ELSE IF globals[g].by = t THEN "own"
                            ELSE "concurrent", own |-> TRUE]
    /\ UNCHANGED <<authVars, nsVars, last, lua_readers, globals, files,
                   installed_packages, pc, principal, result, wrote>>

\* a statement raises an error no pcall catches
raise_error(t) ==
    /\ Evaluating(t)
    /\ pc' = [pc EXCEPT ![t] = "raised"]
    /\ UNCHANGED <<authVars, nsVars, last, lua_readers, globals, files,
                   installed_packages, principal, result, call, wrote>>

\* execute, up to the read guard of lua_vm it takes
execute_lock(t, user_id) ==
    /\ pc[t] = "idle"
    /\ lua_readers' = lua_readers \cup {t}
    /\ pc' = [pc EXCEPT ![t] = "locked"]
    /\ principal' = [principal EXCEPT ![t] = user_id]
    /\ result' = [result EXCEPT ![t] = "none"]
    /\ wrote' = [wrote EXCEPT ![t] = {}]
    /\ UNCHANGED <<authVars, nsVars, last, globals, files, installed_packages,
                   call>>

\* register_db_functions: every catalog name is set to a new closure that
\* owns the execute call's user_id; no other global is touched
register_db_functions(t) ==
    /\ pc[t] = "locked"
    /\ globals' = [g \in GlobalNames |->
                      IF g \in CatalogFns THEN BoundValue(g, principal[t])
                      ELSE globals[g]]
    /\ pc' = [pc EXCEPT ![t] = "eval"]
    /\ UNCHANGED <<authVars, nsVars, last, lua_readers, files,
                   installed_packages, principal, result, call, wrote>>

\* a plausible slip: execute undoes the puts of a script that raised
execute_return_rollback(t) ==
    /\ pc[t] \in {"eval", "raised"}
    /\ lua_readers' = lua_readers \ {t}
    /\ pc' = [pc EXCEPT ![t] = "idle"]
    /\ result' = [result EXCEPT ![t] = IF pc[t] = "eval" THEN "ok" ELSE "err"]
    /\ globals' = [g \in GlobalNames |->
                      IF globals[g].kind = "data" /\ globals[g].by = t
                      THEN [globals[g] EXCEPT !.returned = TRUE]
                      ELSE globals[g]]
    /\ dirs' = IF pc[t] = "raised"
               THEN [n \in DOMAIN dirs |->
                        [dirs[n] EXCEPT !.kv =
                            [k \in DOMAIN @ \ {w[2] : w \in {x \in wrote[t] : x[1] = n}}
                                |-> @[k]]]]
               ELSE dirs
    /\ UNCHANGED <<authVars, namespaces, metadata_db, deleted, last, files,
                   installed_packages, principal, call, wrote>>

\* execute returns: the script's value, or the error it raised; the guard
\* is dropped; the Lua state is kept as the script left it
execute_return(t) ==
    /\ pc[t] \in {"eval", "raised"}
    /\ lua_readers' = lua_readers \ {t}
    /\ pc' = [pc EXCEPT ![t] = "idle"]
    /\ result' = [result EXCEPT ![t] = IF pc[t] = "eval" THEN "ok" ELSE "err"]
    /\ globals' = [g \in GlobalNames |->
                      IF globals[g].kind = "data" /\ globals[g].by = t
                      THEN [globals[g] EXCEPT !.returned = TRUE]
                      ELSE globals[g]]
    /\ UNCHANGED <<authVars, nsVars, last, files, installed_packages,
                   principal, call, wrote>>

\* the executor EmbeddedLiath::new builds, over an empty data directory
ExecIdle ==
    /\ lua_readers = {}
    /\ globals = LuaVM_new
    /\ files = {}
    /\ installed_packages = {}
    /\ pc = [t \in Threads |-> "idle"]
    /\ principal = [t \in Threads |-> ""]
    /\ result = [t \in Threads |-> "none"]
    /\ call = NoCall
    /\ wrote = [t \in Threads |-> {}]

ExecInit ==
    /\ user_permissions = [u \in {"admin"} |-> AdminPermissions]
    /\ auth_store = [enabled |-> FALSE, recs |-> EmptyMap]
    /\ ever_added = {"admin"}
    /\ namespaces = EmptyMap
    /\ metadata_db = EmptyMap
    /\ dirs = EmptyMap
    /\ deleted = {}
    /\ last = [op |-> "init", name |-> "", ok |-> TRUE]
    /\ ExecIdle

\* the arguments the scripts of CatalogSpec pass
CatalogKeys == {<<"k1">>}
CatalogValues == {"a"}
CatalogIds == {1}

\* execute calls made one after another by thread 1, their scripts calling
\* every name of the catalog
CatalogNext ==
    \/ \E u \in Principals : execute_lock(1, u)
    \/ register_db_functions(1)
    \/ \E g \in CatalogFns, c \in BOOLEAN, n \in ExecNames, sh \in ScriptShapes :
          call_create_namespace(1, g, c, n, sh)
    \/ \E g \in CatalogFns, c \in BOOLEAN, n \in ExecNames :
          call_delete_namespace(1, g, c, n)
    \/ \E g \in CatalogFns, c \in BOOLEAN, n \in ExecNames, k \in CatalogKeys,
          v \in CatalogValues : call_put(1, g, c, n, k, v)
    \/ \E g \in CatalogFns, c \in BOOLEAN, n \in ExecNames, k \in CatalogKeys :
          call_delete(1, g, c, n, k)
    \/ \E g \in CatalogFns, c \in BOOLEAN, n \in ExecNames, i \in CatalogIds,
          d \in Dimensions : call_add_vector(1, g, c, n, i, d)
    \/ \E g \in CatalogFns, c \in BOOLEAN, n \in ExecNames, i \in CatalogIds,
          k \in CatalogKeys, v \in CatalogValues :
          call_store_document(1, g, c, n, i, k, v)
    \/ \E g \in CatalogFns, c \in BOOLEAN, n \in ExecNames, i \in CatalogIds,
          v \in CatalogValues : call_memory_store(1, g, c, n, i, v)
    \/ \E g \in CatalogFns, c \in BOOLEAN, n \in ExecNames : call_read(1, g, c, n)
    \/ \E g \in CatalogFns, c \in BOOLEAN, b \in Blobs : call_pure(1, g, c, b)
    \/ \E g \in CatalogFns, c \in BOOLEAN, b \in Blobs : call_upload_file(1, g, c, b)
    \/ \E g \in CatalogFns, c \in BOOLEAN, p \in Packages :
          call_install_package(1, g, c, p)
    \/ \E g \in CatalogFns, c \in BOOLEAN : call_save(1, g, c)
    \/ \E g \in StdGlobals : call_std(1, g)
    \/ \E g \in ScriptGlobals : assign_global(1, g, "")
    \/ \E g \in ScriptGlobals : read_global(1, g)
    \/ raise_error(1)
    \/ execute_return(1)

CatalogSpec == ExecInit /\ [][CatalogNext]_vars

\* the catalog names the scripts of Spec call, and what a script calls
\* them through: the name, or a global it assigned the closure to
SpecFns == {"create_namespace", "insert", "delete", "select", "namespace_exists"}
Callable == SpecFns \cup ScriptGlobals

\* threads calling execute on one executor at any time
Next ==
    \E t \in Threads :
       \/ \E u \in Principals : execute_lock(t, u)
       \/ register_db_functions(t)
       \/ \E g \in Callable, c \in BOOLEAN, n \in ExecNames, sh \in ScriptShapes :
             call_create_namespace(t, g, c, n, sh)
       \/ \E g \in Callable, c \in BOOLEAN, n \in ExecNames, k \in Keys, v \in Values :
             call_put(t, g, c, n, k, v)
       \/ \E g \in Callable, c \in BOOLEAN, n \in ExecNames, k \in Keys :
             call_delete(t, g, c, n, k)
       \/ \E g \in Callable, c \in BOOLEAN, n \in ExecNames : call_read(t, g, c, n)
       \/ \E g \in Callable, c \in BOOLEAN, b \in Blobs : call_pure(t, g, c, b)
       \/ \E g \in ScriptGlobals, from \in {"", "insert"} : assign_global(t, g, from)
       \/ \E g \in ScriptGlobals : read_global(t, g)
       \/ raise_error(t)
       \/ execute_return(t)

Spec == ExecInit /\ [][Next]_vars

----------------------------------------------------------------------------
(* The AuthManager and the NamespaceManager on their own                   *)

\* the AuthManager API called in any order
AuthInit ==
    /\ user_permissions = EmptyMap
    /\ auth_store \in {[enabled |-> e, recs |-> EmptyMap] : e \in BOOLEAN}
    /\ ever_added = {}
    /\ namespaces = EmptyMap
    /\ metadata_db = EmptyMap
    /\ dirs = EmptyMap
    /\ deleted = {}
    /\ last = [op |-> "init", id |-> "", ok |-> TRUE, perms |-> {},
               faulted |-> FALSE]
    /\ ExecIdle

AuthNext ==
    /\ UNCHANGED execVars
    /\ \/ \E u \in Users, ps \in SUBSET AuthPerms : add_user(u, ps)
       \/ \E u \in Users : remove_user(u)
       \/ \E u \in Users, ps \in SUBSET AuthPerms : update_permissions(u, ps)
       \/ \E u \in Users, p \in AuthPerms : add_permission(u, p)
       \/ \E u \in Users, p \in AuthPerms : remove_permission(u, p)
       \/ with_persistence

AuthSpec == AuthInit /\ [][AuthNext]_vars

\* the NamespaceManager API called in any order
NsInit ==
    /\ user_permissions = EmptyMap
    /\ auth_store = [enabled |-> FALSE, recs |-> EmptyMap]
    /\ ever_added = {}
    /\ namespaces = EmptyMap
    /\ metadata_db = EmptyMap
    /\ dirs = EmptyMap
    /\ deleted = {}
    /\ last = [op |-> "init", name |-> "", ok |-> TRUE]
    /\ ExecIdle

NsNext ==
    /\ UNCHANGED execVars
    /\ \/ \E n \in Names, sh \in Shapes, f \in {"none", "dir", "persist"} :
             create_namespace(n, sh[1], sh[2], sh[3], f)
       \/ \E n \in Names, f \in {"none", "metadata", "dir"} : delete_namespace(n, f)
       \/ \E n \in Names, k \in Keys, v \in Values : db_put(n, k, v)
       \/ \E n \in Names, k \in Keys : db_delete(n, k)
       \/ \E n \in Names, i \in VectorIds, d \in Dimensions : add_vector(n, i, d)
       \/ \E f \in Names \cup {""}, s \in SUBSET Names : save_all(f, s)
       \/ \E n \in Names, io_ok \in BOOLEAN : save_namespace(n, io_ok)
       \/ \E lf \in SUBSET Names, f \in Names \cup {""} : load_existing(lf, f)

NsSpec == NsInit /\ [][NsNext]_vars

----------------------------------------------------------------------------
(* QueryExecutor::put / get / delete, the key-value API outside scripts    *)

\* the keys the callers of KvSpec use
KvKeys == {<<"k1">>, <<"k2">>}

\* a plausible slip: a put on a key that is already there keeps the old value
put_first_wins(name, key, value) ==
    /\ IF name \in DOMAIN namespaces
       THEN /\ dirs' = [dirs EXCEPT ![name].kv =
                           IF key \in DOMAIN @ THEN @ ELSE MapPut(@, key, value)]
            /\ last' = [op |-> "put", name |-> name, key |-> key,
                        value |-> {value}, ok |-> TRUE]
       ELSE /\ last' = [op |-> "put", name |-> name, key |-> key,
                        value |-> {value}, ok |-> FALSE]
            /\ UNCHANGED dirs
    /\ UNCHANGED <<authVars, namespaces, metadata_db, deleted>>

\* QueryExecutor::put: get_namespace(namespace)?, then FjallWrapper::put
put(name, key, value) ==
    /\ IF name \in DOMAIN namespaces
       THEN /\ dirs' = [dirs EXCEPT ![name].kv = MapPut(@, key, value)]
            /\ last' = [op |-> "put", name |-> name, key |-> key,
                        value |-> {value}, ok |-> TRUE]
       ELSE /\ last' = [op |-> "put", name |-> name, key |-> key,
                        value |-> {value}, ok |-> FALSE]
            /\ UNCHANGED dirs
    /\ UNCHANGED <<authVars, namespaces, metadata_db, deleted>>

\* QueryExecutor::get: get_namespace(namespace)?, then FjallWrapper::get;
\* value is the Option the call returned
get(name, key) ==
    /\ last' = [op |-> "get", name |-> name, key |-> key,
                value |-> db_get(name, key),
                ok |-> name \in DOMAIN namespaces]
    /\ UNCHANGED <<authVars, nsVars>>

\* QueryExecutor::delete: get_namespace(namespace)?, then FjallWrapper::delete
delete(name, key) ==
    /\ IF name \in DOMAIN namespaces
       THEN /\ dirs' = [dirs EXCEPT ![name].kv = MapDel(@, key)]
            /\ last' = [op |-> "delete", name |-> name, key |-> key,
                        value |-> {}, ok |-> TRUE]
       ELSE /\ last' = [op |-> "delete", name |-> name, key |-> key,
                        value |-> {}, ok |-> FALSE]
            /\ UNCHANGED dirs
    /\ UNCHANGED <<authVars, namespaces, metadata_db, deleted>>

\* the executor once "docs" was created and before "logs" is
KvInit ==
    /\ user_permissions = [u \in {"admin"} |-> AdminPermissions]
    /\ auth_store = [enabled |-> FALSE, recs |-> EmptyMap]
    /\ ever_added = {"admin"}
    /\ namespaces = [n \in {"docs"} |-> NewIndex(384, "Cos", "F32")]
    /\ metadata_db = [n \in {"docs"} |->
                         [name |-> n, dimensions |-> 384,
                          metric |-> metric_to_string("Cos"),
                          scalar |-> scalar_to_string("F32")]]
    /\ dirs = [n \in {"docs"} |-> EmptyDir]
    /\ deleted = {}
    /\ last = [op |-> "create_namespace", name |-> "docs", ok |-> TRUE]
    /\ ExecIdle

\* put, get and delete in any order, namespaces coming and going
KvNext ==
    /\ UNCHANGED execVars
    /\ \/ \E n \in Names, k \in KvKeys, v \in Values : put(n, k, v)
       \/ \E n \in Names, k \in KvKeys : get(n, k)
       \/ \E n \in Names, k \in KvKeys : delete(n, k)
       \/ \E n \in Names, sh \in Shapes : create_namespace(n, sh[1], sh[2], sh[3], "none")

KvSpec == KvInit /\ [][KvNext]_vars

----------------------------------------------------------------------------
\* Lua values and the value execute returns (src/src/query/executor.rs 55-64)

MaxInteger == 30

\* text is a sequence of one-character strings; "xFF" stands for a byte that
\* no UTF-8 text contains
LuaNil == <<"nil", 0>>
LuaBoolean(b) == <<"boolean", b>>
LuaInteger(i) == <<"integer", i>>
\* a float: the finite k/2, or one of inf, -inf and NaN
LuaNumber(class, k) == <<"number", <<class, k>>>>
LuaString(s) == <<"string", s>>
LuaTable(t) == <<"table", t>>
LuaFunction == <<"function", 0>>

\* rlua::String::to_str : the text of a Lua string, an error unless it is UTF-8
to_str_ok(s) == \A i \in 1..Len(s) : s[i] # "xFF"

Digit(d) ==
    CASE d = 0 -> "0" [] d = 1 -> "1" [] d = 2 -> "2" [] d = 3 -> "3" [] d = 4 -> "4"
      [] d = 5 -> "5" [] d = 6 -> "6" [] d = 7 -> "7" [] d = 8 -> "8" [] d = 9 -> "9"

RECURSIVE Digits(_)
Digits(n) == IF n < 10 THEN <<Digit(n)>> ELSE Append(Digits(n \div 10), Digit(n % 10))

\* i64::to_string
i64_to_string(i) == IF i < 0 THEN <<"-">> \o Digits(-i) ELSE Digits(i)

\* f64::to_string of the float f[2]/2 (Display prints no fraction for a whole float)
f64_to_string(f) ==
    CASE f[1] = "nan" -> <<"N", "a", "N">>
      [] f[1] = "inf" -> IF f[2] < 0 THEN <<"-", "i", "n", "f">> ELSE <<"i", "n", "f">>
      [] OTHER ->
            LET k == f[2]
                a == IF k < 0 THEN -k ELSE k
            IN  (IF k < 0 THEN <<"-">> ELSE <<>>)
                    \o Digits(a \div 2)
                    \o (IF a % 2 = 1 THEN <<".", "5">> ELSE <<>>)

bool_to_string(b) == IF b THEN <<"t", "r", "u", "e">> ELSE <<"f", "a", "l", "s", "e">>

Err == [ok |-> FALSE, out |-> <<>>]
Ok(text) == [ok |-> TRUE, out |-> text]

\* the same match that accepts a string that is not UTF-8, each such byte replaced
execute_out_lossy(value) ==
    CASE value[1] = "string" ->
            Ok([i \in 1..Len(value[2]) |-> IF value[2][i] = "xFF" THEN "?" ELSE value[2][i]])
      [] value[1] = "number" -> Ok(f64_to_string(value[2]))
      [] value[1] = "integer" -> Ok(i64_to_string(value[2]))
      [] value[1] = "boolean" -> Ok(bool_to_string(value[2]))
      [] value[1] = "nil" -> Ok(<<"n", "i", "l">>)
      [] OTHER -> Err

\* the match on the script's final value
execute_out(value) ==
    CASE value[1] = "string" -> IF to_str_ok(value[2]) THEN Ok(value[2]) ELSE Err
      [] value[1] = "number" -> Ok(f64_to_string(value[2]))
      [] value[1] = "integer" -> Ok(i64_to_string(value[2]))
      [] value[1] = "boolean" -> Ok(bool_to_string(value[2]))
      [] value[1] = "nil" -> Ok(<<"n", "i", "l">>)
      [] OTHER -> Err

\* the final values of the scripts execute is called with
FinalValues ==
    {LuaNil, LuaBoolean(TRUE), LuaBoolean(FALSE), LuaFunction}
        \cup {LuaInteger(i) : i \in (-MaxInteger)..MaxInteger}
        \cup {LuaNumber("finite", k) : k \in (-MaxInteger)..MaxInteger}
        \cup {LuaNumber("inf", 1), LuaNumber("inf", -1), LuaNumber("nan", 0)}
        \cup {LuaString(s) : s \in {<<>>, <<"a">>, <<"7">>, <<"a", "7">>, <<"n", "i", "l">>,
                                     <<"xFF">>, <<"a", "xFF">>}}
        \cup {LuaTable(EmptyMap), LuaTable([k \in {LuaInteger(1)} |-> LuaInteger(7)])}

\* execute(query, user_id) of a script whose final value is value
execute_final(value) ==
    /\ last' = [op |-> "execute", value |-> value,
                ok |-> execute_out(value).ok, out |-> execute_out(value).out]
    /\ UNCHANGED <<authVars, nsVars, execVars>>

ReturnInit ==
    /\ user_permissions = EmptyMap
    /\ auth_store = [enabled |-> FALSE, recs |-> EmptyMap]
    /\ ever_added = {}
    /\ namespaces = EmptyMap
    /\ metadata_db = EmptyMap
    /\ dirs = EmptyMap
    /\ deleted = {}
    /\ last = [op |-> "init", value |-> LuaNil, ok |-> TRUE, out |-> <<>>]
    /\ ExecIdle

ReturnNext == \E value \in FinalValues : execute_final(value)

ReturnSpec == ReturnInit /\ [][ReturnNext]_vars

----------------------------------------------------------------------------
\* The JSON conversion helpers (src/src/query/executor.rs 788-870).  A
\* serde_json::Value is <<"Null", 0>>, <<"Bool", b>>, <<"Number", <<"int", i>>>>,
\* <<"Number", <<"float", k>>>> (the float k/2), <<"String", s>>,
\* <<"Array", sequence>> or <<"Object", map>>; <<"Err", 0>> is a LuaError.

MaxKeys == 3

JsonErr == <<"Err", 0>>

\* FromLua for String, as pairs::<String, LuaValue> applies it to a key
key_to_string(k) ==
    CASE k[1] = "string" -> IF to_str_ok(k[2]) THEN Ok(k[2]) ELSE Err
      [] k[1] = "integer" -> Ok(i64_to_string(k[2]))
      [] OTHER -> Err

RECURSIVE lua_value_to_json(_)
lua_value_to_json(value) ==
    CASE value[1] = "nil" -> <<"Null", 0>>
      [] value[1] = "boolean" -> <<"Bool", value[2]>>
      [] value[1] = "integer" -> <<"Number", <<"int", value[2]>>>>
      [] value[1] = "number" ->
            IF value[2][1] = "finite" THEN <<"Number", <<"float", value[2][2]>>>> ELSE JsonErr
      [] value[1] = "string" ->
            IF to_str_ok(value[2]) THEN <<"String", value[2]>> ELSE JsonErr
      [] value[1] = "table" ->
            LET t == value[2]
                is_array == \A k \in DOMAIN t : k[1] = "integer" /\ k[2] > 0
                max_idx ==
                    IF DOMAIN t = {} THEN 0
                    ELSE CHOOSE i \in {k[2] : k \in DOMAIN t} :
                             \A k \in DOMAIN t : k[2] <= i
            IN  IF is_array /\ max_idx > 0
                THEN LET arr == [i \in 1..max_idx |->
                                    lua_value_to_json(IF LuaInteger(i) \in DOMAIN t
                                                      THEN t[LuaInteger(i)] ELSE LuaNil)]
                     IN  IF \E i \in 1..max_idx : arr[i] = JsonErr
                         THEN JsonErr ELSE <<"Array", arr>>
                ELSE LET names == {key_to_string(k).out : k \in DOMAIN t}
                         map == [s \in names |->
                                    lua_value_to_json(
                                        t[CHOOSE k \in DOMAIN t : key_to_string(k).out = s])]
                     IN  IF \/ \E k \in DOMAIN t : ~key_to_string(k).ok
                            \/ \E s \in names : map[s] = JsonErr
                         THEN JsonErr ELSE <<"Object", map>>
      [] OTHER -> JsonErr

\* a decoder that hands every whole number to the script as an integer
json_number_to_lua_whole(n) ==
    IF n[1] = "int" THEN LuaInteger(n[2])
    ELSE IF n[2] % 2 = 0 THEN LuaInteger(n[2] \div 2) ELSE LuaNumber("finite", n[2])

\* the Number arm: as_i64 is Some for an integer only, as_f64 for every number
json_number_to_lua(n) ==
    IF n[1] = "int" THEN LuaInteger(n[2]) ELSE LuaNumber("finite", n[2])

RECURSIVE json_to_lua_value(_)
json_to_lua_value(value) ==
    CASE value[1] = "Null" -> LuaNil
      [] value[1] = "Bool" -> LuaBoolean(value[2])
      [] value[1] = "Number" -> json_number_to_lua(value[2])
      [] value[1] = "String" -> LuaString(value[2])
      [] value[1] = "Array" ->
            LET arr == value[2]
                set == {i \in 1..Len(arr) : arr[i] # <<"Null", 0>>}
            IN  LuaTable([k \in {LuaInteger(i) : i \in set} |-> json_to_lua_value(arr[k[2]])])
      [] value[1] = "Object" ->
            LET obj == value[2]
                set == {s \in DOMAIN obj : obj[s] # <<"Null", 0>>}
            IN  LuaTable([k \in {LuaString(s) : s \in set} |-> json_to_lua_value(obj[k[2]])])

\* the keys and the values of the tables scripts build; no two keys have the
\* same text, so the order pairs visits them in does not show in an object
LuaTables ==
    LET LuaKeys ==
            {LuaInteger(0), LuaInteger(1), LuaInteger(2), LuaInteger(3),
             LuaString(<<"a">>), LuaString(<<"b">>), LuaBoolean(TRUE)}
        LuaElements ==
            {LuaInteger(7), LuaNumber("finite", 4), LuaString(<<"a">>),
             LuaTable(EmptyMap),
             LuaTable([k \in {LuaInteger(1), LuaInteger(3)} |-> LuaBoolean(TRUE)])}
    IN  UNION {{LuaTable(t) : t \in [keys -> LuaElements]} :
                   keys \in {s \in SUBSET LuaKeys : Cardinality(s) <= MaxKeys}}

LuaValues ==
    LuaTables
        \cup {LuaNil, LuaBoolean(FALSE), LuaFunction, LuaInteger(-12),
              LuaNumber("finite", 3), LuaNumber("finite", 4), LuaNumber("nan", 0),
              LuaNumber("inf", -1), LuaString(<<"a", "7">>), LuaString(<<"xFF">>),
              LuaTable([k \in {LuaString(<<"a">>)} |->
                           LuaTable([j \in {LuaInteger(1), LuaInteger(2)} |->
                                        LuaNumber("finite", 3)])]),
              LuaTable([k \in {LuaInteger(1)} |-> LuaString(<<"xFF">>)]),
              LuaTable([k \in {LuaString(<<"a">>)} |-> LuaFunction])}

\* the json_encode and insert_json bindings: the value the script built to a
\* JSON value
json_encode ==
    /\ last.op = "value"
    /\ last' = [op |-> "json_encode", value |-> last.value,
                json |-> lua_value_to_json(last.value), back |-> LuaNil]
    /\ UNCHANGED <<authVars, nsVars, execVars>>

\* the json_decode and select_json bindings, given what was encoded
json_decode ==
    /\ last.op = "json_encode"
    /\ last.json # JsonErr
    /\ last' = [op |-> "json_decode", value |-> last.value,
                json |-> last.json, back |-> json_to_lua_value(last.json)]
    /\ UNCHANGED <<authVars, nsVars, execVars>>

JsonInit ==
    /\ user_permissions = EmptyMap
    /\ auth_store = [enabled |-> FALSE, recs |-> EmptyMap]
    /\ ever_added = {}
    /\ namespaces = EmptyMap
    /\ metadata_db = EmptyMap
    /\ dirs = EmptyMap
    /\ deleted = {}
    /\ \E value \in LuaValues :
           last = [op |-> "value", value |-> value, json |-> <<"Null", 0>>, back |-> LuaNil]
    /\ ExecIdle

JsonNext ==
    \/ json_encode
    \/ json_decode

JsonSpec == JsonInit /\ [][JsonNext]_vars

----------------------------------------------------------------------------
\* Documents: EmbeddedLiath::store_with_embedding and semantic_search
\* (src/src/lib.rs 276-312), the same steps as the store_document and
\* semantic_search bindings (src/src/query/executor.rs 402-476).  Keys and
\* texts are byte strings alike, and the side index of a namespace lives in
\* its key-value store under the keys "_vidx:<id>".

DocIds == {1, 2}
DocKeys == {<<"k1">>, VidxKey(1)}
DocTexts == {<<"a">>, <<"b">>}

\* store_with_embedding(namespace, id, key, text); call remembers the arguments
store_with_embedding(name, id, key, text) ==
    /\ store_document(name, id, key, text)
    /\ call' = [kind |-> "store_document", name |-> name, id |-> id,
                key |-> key, text |-> text]
    /\ UNCHANGED <<lua_readers, globals, files, installed_packages, pc, principal,
                   result, wrote>>

\* what semantic_search reports for the hit id: its key and content when the
\* side index names a key and that key has a value
resolve_hit(name, id) ==
    LET key == db_get(name, VidxKey(id))
        content == IF key = {} THEN {} ELSE db_get(name, CHOOSE x \in key : TRUE)
    IN  IF content = {}
        THEN [id |-> id, key |-> {}, content |-> {}]
        ELSE [id |-> id, key |-> key, content |-> content]

\* semantic_search(namespace, query, k): the k vectors the index finds nearest
\* to the embedding of the query, each resolved through the side index
semantic_search(name, k) ==
    /\ IF name \in DOMAIN namespaces /\ namespaces[name].dimensions = EmbeddingDim
       THEN \E found \in SUBSET namespaces[name].vectors :
                /\ \/ Cardinality(found) = k
                   \/ Cardinality(found) < k /\ found = namespaces[name].vectors
                /\ last' = [op |-> "semantic_search", name |-> name, ok |-> TRUE,
                            hits |-> {resolve_hit(name, id) : id \in found}]
       ELSE last' = [op |-> "semantic_search", name |-> name, ok |-> FALSE, hits |-> {}]
    /\ UNCHANGED <<authVars, nsVars>>

DocInit ==
    /\ user_permissions = [u \in {"admin"} |-> AdminPermissions]
    /\ auth_store = [enabled |-> FALSE, recs |-> EmptyMap]
    /\ ever_added = {"admin"}
    /\ namespaces = [n \in Names |->
                        IF n = "docs" THEN NewIndex(384, "Cos", "F32")
                        ELSE NewIndex(128, "L2sq", "F16")]
    /\ metadata_db = [n \in Names |->
                         [name |-> n, dimensions |-> namespaces[n].dimensions,
                          metric |-> metric_to_string(namespaces[n].metric),
                          scalar |-> scalar_to_string(namespaces[n].scalar)]]
    /\ dirs = [n \in Names |-> EmptyDir]
    /\ deleted = {}
    /\ last = [op |-> "create_namespace", name |-> "logs", ok |-> TRUE]
    /\ ExecIdle

DocNext ==
    \/ \E n \in Names, id \in DocIds, k \in DocKeys, text \in DocTexts :
           store_with_embedding(n, id, k, text)
    \/ \E n \in Names, k \in 1..2 : semantic_search(n, k) /\ UNCHANGED execVars
    \/ \E k \in DocKeys, v \in DocTexts : put("docs", k, v) /\ UNCHANGED execVars
    \/ \E k \in DocKeys : delete("docs", k) /\ UNCHANGED execVars

DocSpec == DocInit /\ [][DocNext]_vars

----------------------------------------------------------------------------
\* Embedding generation (src/src/query/executor.rs 24, 42, 119-121, 279-303,
\* 415, 449, 695, 735).  A thread is between embed_begin and embed_end while
\* its call of EmbeddingWrapper::generate runs; pc names the entry point.

\* the ceiling QueryExecutor::new is given; EmbeddedLiath::new passes 10, the
\* callers here 1, which two threads can exceed
max_concurrent_embedding == 1

\* the bound functions that generate an embedding
EmbedFns ==
    {"generate_embedding", "store_document", "semantic_search", "memory_store",
     "memory_recall"}

\* the direct API, QueryExecutor::generate_embedding
ApiGenerate == "api_generate_embedding"

\* Semaphore::available_permits: the only acquire is the try_acquire of the
\* generate_embedding binding, its permit dropped when the closure returns
available_permits ==
    max_concurrent_embedding
        - Cardinality({t \in Threads : pc[t] = "generate_embedding"})

\* an entry point, called by thread t for user_id, up to its call of generate
embed_begin(t, fn, user_id) ==
    /\ pc[t] = "idle"
    /\ IF fn \in EmbedFns /\ ~is_authorized(user_id, Permission(fn))
       THEN /\ last' = [op |-> fn, name |-> "", ok |-> FALSE]
            /\ UNCHANGED pc
       ELSE IF fn = "generate_embedding" /\ available_permits = 0
       THEN /\ last' = [op |-> "try_acquire", name |-> "", ok |-> FALSE]
            /\ UNCHANGED pc
       ELSE /\ last' = [op |-> "generate", name |-> "", ok |-> TRUE]
            /\ pc' = [pc EXCEPT ![t] = fn]
    /\ UNCHANGED <<authVars, nsVars, lua_readers, globals, files, installed_packages,
                   principal, result, call, wrote>>

\* generate returns and the entry point runs to its end
embed_end(t) ==
    /\ pc[t] # "idle"
    /\ pc' = [pc EXCEPT ![t] = "idle"]
    /\ CASE pc[t] = "store_document" -> store_document("docs", 1, <<"k1">>, "a")
         [] pc[t] = "memory_store" -> memory_store("docs", 1, "a")
         [] OTHER -> /\ last' = [op |-> pc[t], name |-> "", ok |-> TRUE]
                     /\ UNCHANGED <<authVars, nsVars>>
    /\ UNCHANGED <<lua_readers, globals, files, installed_packages, principal, result,
                   call, wrote>>

EmbedNext ==
    \E t \in Threads :
        \/ \E fn \in EmbedFns \cup {ApiGenerate}, user_id \in Principals :
               embed_begin(t, fn, user_id)
        \/ embed_end(t)

\* an executor over one 384-dimension namespace, its threads idle
EmbedSpec == KvInit /\ [][EmbedNext]_vars

----------------------------------------------------------------------------
\* The scan binding (src/src/query/executor.rs 639-670) over keys and values
\* that are byte strings, "xFF" a byte no UTF-8 text contains

\* String::from_utf8_lossy: each invalid byte becomes U+FFFD
from_utf8_lossy(bytes) ==
    [i \in 1..Len(bytes) |-> IF bytes[i] = "xFF" THEN "U+FFFD" ELSE bytes[i]]

\* str::starts_with
starts_with(s, prefix) ==
    Len(prefix) <= Len(s) /\ SubSeq(s, 1, Len(prefix)) = prefix

\* the loop that stops one entry past the limit
scan_one_more(name, prefix, limit) ==
    /\ IF name \notin DOMAIN namespaces
       THEN last' = [op |-> "scan", name |-> name, prefix |-> prefix, limit |-> limit,
                     ok |-> FALSE, results |-> {}]
       ELSE LET n == IF limit = {} THEN 100 ELSE CHOOSE x \in limit : TRUE
                kv == dirs[name].kv
                matching == {k \in DOMAIN kv : starts_with(from_utf8_lossy(k), prefix)}
            IN  \E taken \in SUBSET matching :
                    /\ Cardinality(taken) =
                           IF Cardinality(matching) < n + 1 THEN Cardinality(matching)
                           ELSE n + 1
                    /\ last' = [op |-> "scan", name |-> name, prefix |-> prefix,
                                limit |-> limit, ok |-> TRUE,
                                results |-> {[raw |-> k, key |-> from_utf8_lossy(k),
                                              value |-> from_utf8_lossy(kv[k])] :
                                                 k \in taken}]
    /\ UNCHANGED <<authVars, nsVars>>

\* scan(namespace, prefix, limit), limit {} when omitted: the first entries, in
\* the store's iteration order, whose key as text starts with prefix, until
\* limit of them are taken.  The order is the store's own, so which of the
\* matching entries come first is left open; raw is the entry's key as stored.
scan(name, prefix, limit) ==
    /\ IF name \notin DOMAIN namespaces
       THEN last' = [op |-> "scan", name |-> name, prefix |-> prefix, limit |-> limit,
                     ok |-> FALSE, results |-> {}]
       ELSE LET n == IF limit = {} THEN 100 ELSE CHOOSE x \in limit : TRUE
                kv == dirs[name].kv
                matching == {k \in DOMAIN kv : starts_with(from_utf8_lossy(k), prefix)}
            IN  \E taken \in SUBSET matching :
                    /\ Cardinality(taken) =
                           IF Cardinality(matching) < n THEN Cardinality(matching) ELSE n
                    /\ last' = [op |-> "scan", name |-> name, prefix |-> prefix,
                                limit |-> limit, ok |-> TRUE,
                                results |-> {[raw |-> k, key |-> from_utf8_lossy(k),
                                              value |-> from_utf8_lossy(kv[k])] :
                                                 k \in taken}]
    /\ UNCHANGED <<authVars, nsVars>>

\* put and delete through the direct API, scan by a script
ScanKeys == {<<"a">>, <<"a", "b">>, <<"b">>, <<"xFF", "a">>}

ScanNext ==
    /\ UNCHANGED execVars
    /\ \/ \E k \in ScanKeys, v \in {<<"v">>, <<"w", "xFF">>} : put("docs", k, v)
       \/ \E k \in ScanKeys : delete("docs", k)
       \/ \E n \in Names, p \in {<<>>, <<"a">>, <<"U+FFFD">>},
             limit \in {{}, {0}, {1}, {2}} :
              scan(n, p, limit)

ScanSpec == KvInit /\ [][ScanNext]_vars

----------------------------------------------------------------------------
\* LuaValidator (src/src/lua/validator.rs).  A script is the concatenation of
\* its pieces; "io", "open", "load", "return" and "x" are made of word
\* characters, "\n" is the only whitespace.  Whether the Lua compiler accepts
\* a script is the compiler's business and is an input next to the text.

MaxPieces == 4

\* two of the eighteen symbols of blocked_functions, one with a module and one
\* without; the others are handled alike
blocked_functions == {<<"io", ".", "open">>, <<"load">>}

\* validate(code) of the script in last, compiles being what check_syntax finds
validate ==
    /\ last.op = "script"
    /\ LET code == last.code
           word(i) == i \in 1..Len(code) /\ code[i] \in {"io", "open", "load", "return", "x"}
           at(i, s) == /\ i + Len(s) - 1 <= Len(code)
                       /\ SubSeq(code, i, i + Len(s) - 1) = s
           \* \b<symbol>\s*\(
           call_shaped(p) ==
               \E i \in 1..Len(code) :
                   /\ ~word(i - 1)
                   /\ at(i, p)
                   /\ \E j \in (i + Len(p))..Len(code) :
                          /\ code[j] = "("
                          /\ \A m \in (i + Len(p))..(j - 1) : code[m] = "\n"
           \* \b<module>\.
           module_dot(p) ==
               /\ Len(p) > 1
               /\ \E i \in 1..Len(code) : ~word(i - 1) /\ at(i, <<p[1], ".">>)
           errors ==
               {[error_type |-> "ForbiddenFunction", pattern |-> <<"call", p>>] :
                    p \in {q \in blocked_functions : call_shaped(q)}}
               \cup {[error_type |-> "ForbiddenFunction", pattern |-> <<"module", p>>] :
                         p \in {q \in blocked_functions : module_dot(q)}}
               \cup (IF last.compiles THEN {}
                     ELSE {[error_type |-> "SyntaxError", pattern |-> <<>>]})
           \* has_return_statement: a line that has "return" before any "--"
           has_return ==
               \E i \in 1..Len(code) :
                   /\ code[i] = "return"
                   /\ \A m \in 1..(i - 1) :
                          code[m] = "--" => \E n \in (m + 1)..(i - 1) : code[n] = "\n"
           blank == \A i \in 1..Len(code) : code[i] = "\n"
       IN  last' = [op |-> "validate", code |-> code, compiles |-> last.compiles,
                    valid |-> errors = {}, errors |-> errors,
                    warnings |-> IF ~has_return /\ ~blank THEN {"missing_return"} ELSE {},
                    available_functions |-> CatalogFns]
    /\ UNCHANGED <<authVars, nsVars, execVars>>

ValidateInit ==
    /\ user_permissions = EmptyMap
    /\ auth_store = [enabled |-> FALSE, recs |-> EmptyMap]
    /\ ever_added = {}
    /\ namespaces = EmptyMap
    /\ metadata_db = EmptyMap
    /\ dirs = EmptyMap
    /\ deleted = {}
    /\ \E n \in 0..MaxPieces :
           \E code \in [1..n -> {"io", ".", "open", "(", "load", "return", "x", "--", "\n"}],
              compiles \in BOOLEAN :
               last = [op |-> "script", code |-> code, compiles |-> compiles]
    /\ ExecIdle

ValidateSpec == ValidateInit /\ [][validate]_vars

----------------------------------------------------------------------------
(* Concurrent callers of QueryExecutor's typed API                         *)

\* In TableSpec pc[t] is a record: at is the caller's position ("idle",
\* "manager" once the namespace_manager lock is held, "locked" once the
\* namespaces lock is held, "checked" after contains_key, "handle" once
\* get_namespace has returned its clone), handle what that clone refers to:
\* "none" Err(not found), "live" a namespace of the table, "unlinked" a
\* namespace that delete_namespace has removed since.
NoShape == <<0, "", "">>

Returned == [at |-> "idle", op |-> "", name |-> "", shape |-> NoShape,
             value |-> "", handle |-> "none"]

\* holders of namespace_manager.write(): QueryExecutor::delete_namespace
manager_writers ==
    {t \in Threads : pc[t].at # "idle" /\ pc[t].op = "delete_namespace"}

\* holders of namespace_manager.read(): the guard is a temporary of the
\* statement that calls the manager, so put has dropped it before db.put
manager_readers ==
    {t \in Threads :
        \/ pc[t].op = "create_namespace" /\ pc[t].at # "idle"
        \/ pc[t].op \in {"put", "namespace_exists"} /\ pc[t].at \in {"manager", "locked"}}

\* a plausible slip: the write guard is dropped after contains_key
table_writers_until_check ==
    {t \in Threads :
        pc[t].op \in {"create_namespace", "delete_namespace"} /\ pc[t].at = "locked"}

\* holders of self.namespaces.write(): the guard lives to the end of
\* create_namespace and delete_namespace
table_writers ==
    {t \in Threads :
        pc[t].op \in {"create_namespace", "delete_namespace"}
            /\ pc[t].at \in {"locked", "checked"}}

\* holders of self.namespaces.read(): get_namespace, namespace_exists
table_readers ==
    {t \in Threads :
        pc[t].op \in {"put", "namespace_exists"} /\ pc[t].at = "locked"}

\* a caller enters a QueryExecutor method and takes the manager lock
api_call(t, op, name, shape, value) ==
    /\ pc[t].at = "idle"
    /\ IF op = "delete_namespace"
       THEN manager_writers \cup manager_readers = {}
       ELSE manager_writers = {}
    /\ pc' = [pc EXCEPT ![t] = [at |-> "manager", op |-> op, name |-> name,
                                shape |-> shape, value |-> value,
                                handle |-> "none"]]
    /\ UNCHANGED <<authVars, nsVars, last, lua_readers, globals, files,
                   installed_packages, principal, result, call, wrote>>

\* self.namespaces.write()
table_write(t) ==
    /\ pc[t].at = "manager"
    /\ pc[t].op \in {"create_namespace", "delete_namespace"}
    /\ table_writers \cup table_readers = {}
    /\ pc' = [pc EXCEPT ![t].at = "locked"]
    /\ UNCHANGED <<authVars, nsVars, last, lua_readers, globals, files,
                   installed_packages, principal, result, call, wrote>>

\* self.namespaces.read()
table_read(t) ==
    /\ pc[t].at = "manager"
    /\ pc[t].op \in {"put", "namespace_exists"}
    /\ table_writers = {}
    /\ pc' = [pc EXCEPT ![t].at = "locked"]
    /\ UNCHANGED <<authVars, nsVars, last, lua_readers, globals, files,
                   installed_packages, principal, result, call, wrote>>

\* create_namespace: if namespaces.contains_key(name) return Err
create_check(t) ==
    /\ pc[t].at = "locked"
    /\ pc[t].op = "create_namespace"
    /\ IF pc[t].name \in DOMAIN namespaces
       THEN /\ pc' = [pc EXCEPT ![t] = Returned]
            /\ last' = [op |-> "create_namespace", name |-> pc[t].name,
                        ok |-> FALSE, thread |-> t]
       ELSE /\ pc' = [pc EXCEPT ![t].at = "checked"]
            /\ UNCHANGED last
    /\ UNCHANGED <<authVars, nsVars, lua_readers, globals, files,
                   installed_packages, principal, result, call, wrote>>

\* create_namespace from create_dir_all to namespaces.insert
create_insert(t) ==
    /\ pc[t].at = "checked"
    /\ dirs' = IF pc[t].name \in DOMAIN dirs THEN dirs
               ELSE MapPut(dirs, pc[t].name, EmptyDir)
    /\ metadata_db' = persist_metadata(pc[t].name,
                         [name |-> pc[t].name, dimensions |-> pc[t].shape[1],
                          metric |-> metric_to_string(pc[t].shape[2]),
                          scalar |-> scalar_to_string(pc[t].shape[3])])
    /\ namespaces' = MapPut(namespaces, pc[t].name,
                            NewIndex(pc[t].shape[1], pc[t].shape[2], pc[t].shape[3]))
    /\ deleted' = deleted \ {pc[t].name}
    /\ pc' = [pc EXCEPT ![t] = Returned]
    /\ last' = [op |-> "create_namespace", name |-> pc[t].name, ok |-> TRUE,
                thread |-> t]
    /\ UNCHANGED <<authVars, lua_readers, globals, files, installed_packages,
                   principal, result, call, wrote>>

\* delete_namespace under its write guard; the clones of the removed
\* Namespace that other callers hold stay usable (Arc) but refer to a
\* keyspace whose directory is gone
delete_remove(t) ==
    /\ pc[t].at = "locked"
    /\ pc[t].op = "delete_namespace"
    /\ delete_namespace(pc[t].name, "none")
    /\ pc' = [u \in Threads |->
                 IF u = t THEN Returned
                 ELSE IF /\ pc[u].at = "handle"
                         /\ pc[u].name = pc[t].name
                         /\ pc[u].handle = "live"
                         /\ pc[t].name \in DOMAIN namespaces
                      THEN [pc[u] EXCEPT !.handle = "unlinked"]
                      ELSE pc[u]]
    /\ UNCHANGED <<lua_readers, globals, files, installed_packages,
                   principal, result, call, wrote>>

\* the body of get_namespace and of namespace_exists, whose read guard is
\* dropped on return
table_lookup(t) ==
    /\ pc[t].at = "locked"
    /\ pc[t].op \in {"put", "namespace_exists"}
    /\ IF pc[t].op = "namespace_exists"
       THEN /\ pc' = [pc EXCEPT ![t] = Returned]
            /\ last' = [op |-> "namespace_exists", name |-> pc[t].name,
                        ok |-> namespace_exists(pc[t].name), thread |-> t]
       ELSE /\ pc' = [pc EXCEPT ![t].at = "handle",
                                ![t].handle = IF get_namespace(pc[t].name) = {}
                                              THEN "none" ELSE "live"]
            /\ UNCHANGED last
    /\ UNCHANGED <<authVars, nsVars, lua_readers, globals, files,
                   installed_packages, principal, result, call, wrote>>

\* QueryExecutor::put after get_namespace(namespace)?: ns.db.put(key,
\* value) through the clone, no lock held.  What FjallWrapper::put returns
\* on a keyspace whose directory was removed is not fixed by the code: io_ok.
put_write(t, io_ok) ==
    /\ pc[t].at = "handle"
    /\ pc[t].op = "put"
    /\ CASE pc[t].handle = "none" ->
              /\ io_ok
              /\ last' = [op |-> "put", name |-> pc[t].name, ok |-> FALSE,
                          thread |-> t, handle |-> "none", err |-> "not found"]
              /\ UNCHANGED dirs
         [] pc[t].handle = "live" ->
              /\ io_ok
              /\ dirs' = [dirs EXCEPT ![pc[t].name].kv = MapPut(@, <<"k1">>, pc[t].value)]
              /\ last' = [op |-> "put", name |-> pc[t].name, ok |-> TRUE,
                          thread |-> t, handle |-> "live", err |-> ""]
         [] OTHER ->
              /\ last' = [op |-> "put", name |-> pc[t].name, ok |-> io_ok,
                          thread |-> t, handle |-> "unlinked",
                          err |-> IF io_ok THEN "" ELSE "io"]
              /\ UNCHANGED dirs
    /\ pc' = [pc EXCEPT ![t] = Returned]
    /\ UNCHANGED <<authVars, namespaces, metadata_db, deleted, lua_readers,
                   globals, files, installed_packages, principal, result,
                   call, wrote>>

TableInit ==
    /\ user_permissions = EmptyMap
    /\ auth_store = [enabled |-> FALSE, recs |-> EmptyMap]
    /\ ever_added = {}
    /\ namespaces = EmptyMap
    /\ metadata_db = EmptyMap
    /\ dirs = EmptyMap
    /\ deleted = {}
    /\ last = [op |-> "init", name |-> "", ok |-> TRUE]
    /\ lua_readers = {}
    /\ globals = LuaVM_new
    /\ files = {}
    /\ installed_packages = {}
    /\ pc = [t \in Threads |-> Returned]
    /\ principal = [t \in Threads |-> ""]
    /\ result = [t \in Threads |-> "none"]
    /\ call = NoCall
    /\ wrote = [t \in Threads |-> {}]

TableNext ==
    \/ \E t \in Threads, n \in Names, sh \in {s \in Shapes : s[2] # "IP"} :
          api_call(t, "create_namespace", n, sh, "")
    \/ \E t \in Threads, n \in Names, op \in {"delete_namespace", "namespace_exists"} :
          api_call(t, op, n, NoShape, "")
    \/ \E t \in Threads, n \in Names, v \in Values : api_call(t, "put", n, NoShape, v)
    \/ \E t \in Threads : table_write(t)
    \/ \E t \in Threads : table_read(t)
    \/ \E t \in Threads : create_check(t)
    \/ \E t \in Threads : create_insert(t)
    \/ \E t \in Threads : delete_remove(t)
    \/ \E t \in Threads : table_lookup(t)
    \/ \E t \in Threads, io_ok \in BOOLEAN : put_write(t, io_ok)

TableSpec == TableInit /\ [][TableNext]_vars

----------------------------------------------------------------------------
(* The locks of QueryExecutor, NamespaceManager and LuaVM                  *)

\* In LockSpec pc[t] is a record: op the entry point thread t is in ("" for
\* none), rest the lock operations it still has to do in its current
\* call, held the guards it holds (innermost last), calls the number of
\* bound functions its script has called.  A lock operation is
\* <<"acq", lock, mode>> or <<"rel", lock, "">>.
MaxCalls == 2

LockIdle == [op |-> "", rest |-> <<>>, held |-> <<>>, calls |-> 0]

\* namespace_manager in mode m around a NamespaceManager method that takes
\* self.namespaces in mode tm; both guards are dropped when it returns
manager_locks(m, tm) ==
    << <<"acq", "namespace_manager", m>>, <<"acq", "namespaces", tm>>,
       <<"rel", "namespaces", "">>, <<"rel", "namespace_manager", "">> >>

\* auth_manager.read().unwrap().is_authorized(..) / .flush()
auth_locks == << <<"acq", "auth_manager", "r">>, <<"rel", "auth_manager", "">> >>

\* the typed methods of QueryExecutor
DirectLocks(op) ==
    CASE op = "put" -> manager_locks("r", "r")
      [] op = "create_namespace" -> manager_locks("r", "w")
      [] op = "delete_namespace" -> manager_locks("w", "w")
      [] op = "save_all" -> manager_locks("r", "r") \o auth_locks

\* a plausible slip: the binding takes lua_vm.write() to install a package
install_package_locks_write ==
    auth_locks \o
    << <<"acq", "lua_vm", "w">>, <<"acq", "installed_packages", "w">>,
       <<"rel", "installed_packages", "">>, <<"rel", "lua_vm", "">> >>

\* the install_package binding: the check, then
\* lua_vm.read().unwrap().install_package(..), which writes installed_packages
install_package_locks ==
    auth_locks \o
    << <<"acq", "lua_vm", "r">>, <<"acq", "installed_packages", "w">>,
       <<"rel", "installed_packages", "">>, <<"rel", "lua_vm", "">> >>

\* the closures register_db_functions binds
BoundLocks(fn) ==
    CASE fn = "insert" -> auth_locks \o manager_locks("r", "r")
      [] fn = "create_namespace" -> auth_locks \o manager_locks("w", "w")
      [] fn = "delete_namespace" -> auth_locks \o manager_locks("w", "w")
      [] fn = "save" -> manager_locks("r", "r") \o auth_locks
      [] fn = "install_package" -> install_package_locks

\* the modes in which thread t holds lock l
HeldModes(t, l) ==
    {pc[t].held[i][2] : i \in {j \in 1..Len(pc[t].held) : pc[t].held[j][1] = l}}

\* std::sync::RwLock grants a guard: no holder in a conflicting mode, the
\* requesting thread included (the lock is not reentrant)
CanAcquire(t, l, m) ==
    \A u \in Threads :
        IF m = "w" THEN HeldModes(u, l) = {} ELSE "w" \notin HeldModes(u, l)

\* a thread enters a typed method
lock_call(t, op) ==
    /\ pc[t].op = ""
    /\ pc' = [pc EXCEPT ![t] = [op |-> op, rest |-> DirectLocks(op),
                                held |-> <<>>, calls |-> 0]]
    /\ UNCHANGED <<authVars, nsVars, last, lua_readers, globals, files,
                   installed_packages, principal, result, call, wrote>>

\* a thread enters execute, which first takes lua_vm.read()
lock_execute(t) ==
    /\ pc[t].op = ""
    /\ pc' = [pc EXCEPT ![t] = [op |-> "execute",
                                rest |-> << <<"acq", "lua_vm", "r">> >>,
                                held |-> <<>>, calls |-> 0]]
    /\ UNCHANGED <<authVars, nsVars, last, lua_readers, globals, files,
                   installed_packages, principal, result, call, wrote>>

\* the script of an execute call calls a bound function
lock_bound(t, fn) ==
    /\ pc[t].op = "execute"
    /\ pc[t].rest = <<>>
    /\ pc[t].calls < MaxCalls
    /\ pc' = [pc EXCEPT ![t].rest = BoundLocks(fn), ![t].calls = @ + 1]
    /\ UNCHANGED <<authVars, nsVars, last, lua_readers, globals, files,
                   installed_packages, principal, result, call, wrote>>

\* the next lock operation of thread t: an acquisition waits until the
\* lock can be granted; a typed method returns after its last operation
lock_step(t) ==
    /\ pc[t].rest # <<>>
    /\ LET i == Head(pc[t].rest)
           held == IF i[1] = "acq" THEN Append(pc[t].held, <<i[2], i[3]>>)
                   ELSE SubSeq(pc[t].held, 1, Len(pc[t].held) - 1)
       IN /\ i[1] = "acq" => CanAcquire(t, i[2], i[3])
          /\ i[1] = "rel" => pc[t].held[Len(pc[t].held)][1] = i[2]
          /\ pc' = [pc EXCEPT ![t] =
                       IF Len(pc[t].rest) = 1 /\ pc[t].op # "execute"
                       THEN LockIdle
                       ELSE [@ EXCEPT !.rest = Tail(@), !.held = held]]
    /\ UNCHANGED <<authVars, nsVars, last, lua_readers, globals, files,
                   installed_packages, principal, result, call, wrote>>

\* the script ends and execute drops its lua_vm guard
lock_return(t) ==
    /\ pc[t].op = "execute"
    /\ pc[t].rest = <<>>
    /\ pc[t].held = << <<"lua_vm", "r">> >>
    /\ pc' = [pc EXCEPT ![t] = LockIdle]
    /\ UNCHANGED <<authVars, nsVars, last, lua_readers, globals, files,
                   installed_packages, principal, result, call, wrote>>

LockInit ==
    /\ user_permissions = EmptyMap
    /\ auth_store = [enabled |-> FALSE, recs |-> EmptyMap]
    /\ ever_added = {}
    /\ namespaces = EmptyMap
    /\ metadata_db = EmptyMap
    /\ dirs = EmptyMap
    /\ deleted = {}
    /\ last = [op |-> "init", name |-> "", ok |-> TRUE]
    /\ lua_readers = {}
    /\ globals = LuaVM_new
    /\ files = {}
    /\ installed_packages = {}
    /\ pc = [t \in Threads |-> LockIdle]
    /\ principal = [t \in Threads |-> ""]
    /\ result = [t \in Threads |-> "none"]
    /\ call = NoCall
    /\ wrote = [t \in Threads |-> {}]

LockNext ==
    \E t \in Threads :
        \/ \E op \in {"put", "create_namespace", "delete_namespace", "save_all"} :
              lock_call(t, op)
        \/ lock_execute(t)
        \/ \E fn \in {"insert", "create_namespace", "delete_namespace", "save",
                      "install_package"} : lock_bound(t, fn)
        \/ lock_step(t)
        \/ lock_return(t)

LockSpec == LockInit /\ [][LockNext]_vars

----------------------------------------------------------------------------
\* C1: every invocation of a function register_db_functions bound consults
\* is_authorized for the principal the closure owns before it does anything
\* else, and raises the authorization error when the answer is no.
EveryBoundFunctionChecks ==
    call.kind = "bound" =>
        /\ call.checked
        /\ ~call.authorized => call.outcome = "unauthorized"

----------------------------------------------------------------------------
\* C2: an id that add_user was never called with (so none the store could
\* hold either) is authorized for nothing, whatever was called before,
\* update_permissions, add_permission and remove_permission on it included.
DefaultDeny ==
    \A u \in Users \ ever_added : \A p \in AuthPerms : ~is_authorized(u, p)

\* C2 witness: add_permission was just called on a never-added id while
\* another principal holds permissions
DefaultDenyWitness ==
    /\ last.op = "add_permission"
    /\ last.id \notin ever_added
    /\ \E u \in ever_added : \E p \in AuthPerms : is_authorized(u, p)

----------------------------------------------------------------------------
\* C3: while a script runs, no global it can reach (set by LuaVM::new or by
\* register_db_functions) gives it the filesystem, the network, subprocesses,
\* dynamic code loading or raw introspection.
NoCapabilityGlobals ==
    \A t \in Threads :
        Evaluating(t) =>
            \A g \in GlobalNames :
                globals[g].kind # "nil" => Capability(g) = "none"

----------------------------------------------------------------------------
\* C4: a script never reads, from a global, a value that the script of an
\* execute call that has already returned assigned.
NoGlobalSurvivesExecute ==
    ~(call.kind = "read" /\ call.outcome = "earlier")

----------------------------------------------------------------------------
\* C5: at most one execute call at a time has bound its functions and not
\* yet returned, that is, is evaluating its script on the runtime.
OneExecuteAtATime ==
    Cardinality({t \in Threads : pc[t] \in {"eval", "raised"}}) <= 1

----------------------------------------------------------------------------
\* C6: when a script raised an error nothing caught, execute returns the
\* error and leaves the store as the script left it: the return changes no
\* namespace, record or key, and every put of the script that no later call
\* overwrote or deleted is still read back.
RaisedScriptKeepsMutations ==
    [][\A t \in Threads :
          (pc[t] = "raised" /\ pc'[t] = "idle") =>
              /\ result'[t] = "err"
              /\ namespaces' = namespaces
              /\ metadata_db' = metadata_db
              /\ dirs' = dirs
              /\ \A w \in wrote[t] : (db_get(w[1], w[2]))' = {w[3]}]_vars

RaisedScriptKeepsMutationsWitness ==
    /\ pc[1] = "idle"
    /\ result[1] = "err"
    /\ \E w \in wrote[1] : db_get(w[1], w[2]) = {w[3]}

----------------------------------------------------------------------------
\* C7: create_namespace on a name that is already in the table returns an
\* error and changes nothing: the table entry (dimensions, metric, scalar,
\* vectors), the key-value contents and the persisted config records stay
\* as they were.
CreateExistingChangesNothing ==
    [][(last'.op = "create_namespace" /\ last'.name \in DOMAIN namespaces)
          => /\ ~last'.ok
             /\ namespaces' = namespaces
             /\ metadata_db' = metadata_db
             /\ dirs' = dirs]_vars

\* C7 witness: a create_namespace has just failed on a namespace that holds
\* a key and a vector
CreateExistingWitness ==
    /\ last.op = "create_namespace"
    /\ ~last.ok
    /\ last.name \in DOMAIN namespaces
    /\ namespaces[last.name].vectors # {}
    /\ \E k \in Keys : db_get(last.name, k) # {}

\* C8: a name deleted with success is not returned by get_namespace, not
\* reported by namespace_exists and not listed by list_namespaces until a
\* create_namespace of it succeeds; delete_namespace on a name that is not
\* in the table returns an error.
DeletedStaysGone ==
    [][/\ \A n \in deleted' :
             /\ (get_namespace(n))' = {}
             /\ ~(namespace_exists(n))'
             /\ n \notin list_namespaces'
       /\ (last'.op = "delete_namespace" /\ last'.name \notin DOMAIN namespaces)
             => ~last'.ok]_vars

\* C8 witness: a namespace was deleted with success, and operations on the
\* other namespace and a new manager have followed
DeletedStaysGoneWitness ==
    /\ deleted # {}
    /\ last.op = "new"
    /\ last.ok
    /\ namespaces # EmptyMap

\* C9: a manager constructed over the data directory of a dropped one has
\* every namespace the dropped one had, with the same dimensions, and get
\* returns for every key what it returned before.
ReopenKeepsNamespaces ==
    [][(last'.op = "new" /\ last'.ok)
          => \A n \in DOMAIN namespaces :
                /\ (namespace_exists(n))'
                /\ namespaces'[n].dimensions = namespaces[n].dimensions
                /\ \A k \in Keys : (db_get(n, k))' = db_get(n, k)]_vars

\* C9 witness: after create_namespace, put and save_all, a new manager was
\* constructed and has the namespace and the key
ReopenWitness ==
    /\ last.op = "new"
    /\ last.ok
    /\ \E n \in DOMAIN namespaces :
          /\ dirs[n].idx.exists
          /\ \E k \in Keys : db_get(n, k) # {}

\* C10: when only snapshot loads fail, the construction succeeds: every
\* persisted namespace is registered with its key-value data readable, one
\* whose snapshot failed to load with an empty index, every other with the
\* vectors of its snapshot.
SnapshotFailureTolerated ==
    [][(last'.op = "new" /\ last'.open_fail = "")
          => /\ last'.ok
             /\ DOMAIN namespaces' = DOMAIN metadata_db
             /\ \A n \in DOMAIN metadata_db :
                   /\ n \in last'.load_fail => namespaces'[n].vectors = {}
                   /\ (n \notin last'.load_fail /\ n \in DOMAIN dirs /\ dirs[n].idx.exists)
                         => namespaces'[n].vectors = dirs[n].idx.ids
                   /\ \A k \in Keys :
                         (n \in DOMAIN dirs /\ k \in DOMAIN dirs[n].kv)
                            => (db_get(n, k))' = {dirs[n].kv[k]}]_vars

\* C10 witness: a manager was constructed while one snapshot failed to load;
\* that namespace has its key, the other namespace has its vectors
SnapshotFailureWitness ==
    /\ last.op = "new"
    /\ last.ok
    /\ \E n \in last.load_fail :
          /\ dirs[n].idx.ids # {}
          /\ \E k \in Keys : db_get(n, k) # {}
          /\ \E m \in DOMAIN namespaces \ {n} : namespaces[m].vectors # {}

----------------------------------------------------------------------------
\* C11: in an existing namespace a put makes get return its value, a delete
\* makes get return absent, neither changes what get returns for any other
\* key or namespace, and get returns what the store holds and changes
\* nothing: so get(k) is the value of the last put(k, v) no delete(k)
\* followed, and absent when there is none.
GetReturnsLastPut ==
    [][/\ \A n \in Names, k \in KvKeys :
             IF last'.op \in {"put", "delete"} /\ last'.ok
                /\ last'.name = n /\ last'.key = k
             THEN (db_get(n, k))' = last'.value
             ELSE n \in DOMAIN namespaces => (db_get(n, k))' = db_get(n, k)
       /\ last'.op = "get" /\ last'.ok =>
             last'.value = db_get(last'.name, last'.key)]_vars

GetReturnsLastPutWitness ==
    /\ last.op = "get"
    /\ last.ok
    /\ last.value = {"b"}
    /\ db_get(last.name, IF last.key = <<"k1">> THEN <<"k2">> ELSE <<"k1">>) = {"a"}

----------------------------------------------------------------------------
\* C13: when update_permissions(id, S) returns Ok, id is authorized for
\* exactly the permissions of S: nothing of its previous set is left
\* unless S names it too.
UpdateReplacesPermissions ==
    [][last'.op = "update_permissions" /\ last'.ok =>
          \A u \in Users, p \in AuthPerms :
              u = last'.id => ((is_authorized(u, p))' <=> p \in last'.perms)]_vars

UpdateReplacesPermissionsWitness ==
    /\ last.op = "update_permissions"
    /\ last.ok
    /\ last.perms = {"insert"}
    /\ ~is_authorized(last.id, "select")
    /\ is_authorized(last.id, "insert")

----------------------------------------------------------------------------
\* C14: on a principal that exists, add_permission(id, p) makes
\* is_authorized(id, p) true and remove_permission(id, p) makes it false,
\* and each leaves every other answer of is_authorized (another permission
\* of id, anything of another principal) as it was.
AddThenRemovePermission ==
    [][(last'.op \in {"add_permission", "remove_permission"}
           /\ last'.id \in DOMAIN user_permissions
           /\ (last' # last \/ user_permissions' # user_permissions)) =>
          \A u \in Users, p \in AuthPerms :
              IF u = last'.id /\ p \in last'.perms
              THEN (is_authorized(u, p))' = (last'.op = "add_permission")
              ELSE (is_authorized(u, p))' = is_authorized(u, p)]_vars

AddThenRemovePermissionWitness ==
    /\ last.op = "remove_permission"
    /\ last.ok
    /\ last.perms = {"insert"}
    /\ ~is_authorized(last.id, "insert")
    /\ is_authorized(last.id, "select")
    /\ \E u \in Users \ {last.id} : is_authorized(u, "insert")

----------------------------------------------------------------------------
----------------------------------------------------------------------------
\* the number a decimal text stands for, -1 for a text that is not digits
RECURSIVE DecimalValue(_)
DecimalValue(text) ==
    IF text = <<>> THEN 0
    ELSE LET d == text[Len(text)]
             rest == DecimalValue(SubSeq(text, 1, Len(text) - 1))
         IN  IF rest < 0 \/ \A n \in 0..9 : Digit(n) # d THEN -1
             ELSE 10 * rest + (CHOOSE n \in 0..9 : Digit(n) = d)

IsDecimalOf(text, n) ==
    /\ text # <<>>
    /\ IF n < 0
       THEN /\ text[1] = "-"
            /\ Len(text) > 1
            /\ text[2] # "0"
            /\ DecimalValue(Tail(text)) = -n
       ELSE /\ Len(text) > 1 => text[1] # "0"
            /\ DecimalValue(text) = n

ScalarKinds == {"string", "integer", "number", "boolean", "nil"}

\* C16 as stated: a final value that is a string, an integer, a float, a
\* boolean or nil comes back as a string, any other final value as an error,
\* and an integer n comes back as the decimal text of n.
ReturnsEveryScalar ==
    last.op = "execute" =>
        /\ last.ok <=> last.value[1] \in ScalarKinds
        /\ last.value[1] = "integer" => IsDecimalOf(last.out, last.value[2])

\* C16: execute returns the script's final value as a string when that value
\* is a string that is valid UTF-8, an integer, a float, a boolean or nil, and
\* an error when it is a string that is not valid UTF-8 or has any other type;
\* a valid string comes back unchanged and the integer n as the decimal text
\* of n.
ReturnsScalarAsText ==
    last.op = "execute" =>
        /\ last.ok <=> /\ last.value[1] \in ScalarKinds
                       /\ last.value[1] = "string" => to_str_ok(last.value[2])
        /\ last.ok /\ last.value[1] = "string" => last.out = last.value[2]
        /\ last.value[1] = "integer" => IsDecimalOf(last.out, last.value[2])
        /\ last.value[1] = "boolean" =>
               last.out = IF last.value[2] THEN <<"t", "r", "u", "e">>
                          ELSE <<"f", "a", "l", "s", "e">>
        /\ last.value[1] = "nil" => last.out = <<"n", "i", "l">>
        /\ last.ok => last.out # <<>> \/ last.value = LuaString(<<>>)

ReturnsScalarAsTextWitness ==
    /\ last.op = "execute"
    /\ last.value = LuaInteger(-12)
    /\ last.ok
    /\ last.out = <<"-", "1", "2">>

----------------------------------------------------------------------------
\* the keys of a table are exactly the integers 1..N for some N >= 1
KeysAreOneToN(t) ==
    /\ DOMAIN t # {}
    /\ \E N \in 1..Cardinality(DOMAIN t) : DOMAIN t = {LuaInteger(i) : i \in 1..N}

\* C17: a table converted to a JSON value becomes an array if and only if its
\* keys are exactly the integers 1..N for some N >= 1 with no gaps, and every
\* other table becomes an object.
ArrayIffKeysOneToN ==
    last.op = "json_encode" /\ last.value[1] = "table" =>
        IF KeysAreOneToN(last.value[2])
        THEN last.json[1] \in {"Array", "Err"}
        ELSE last.json[1] \in {"Object", "Err"}

----------------------------------------------------------------------------
\* a script value built from nil, booleans, integers, finite floats, UTF-8
\* strings, arrays (tables keyed by positive integers, a missing index being a
\* null element) and objects (tables keyed by strings)
RECURSIVE JsonShaped(_)
JsonShaped(value) ==
    CASE value[1] \in {"nil", "boolean", "integer"} -> TRUE
      [] value[1] = "number" -> value[2][1] = "finite"
      [] value[1] = "string" -> to_str_ok(value[2])
      [] value[1] = "table" ->
            LET t == value[2]
            IN  /\ \/ \A k \in DOMAIN t : k[1] = "integer" /\ k[2] > 0
                   \/ \A k \in DOMAIN t : k[1] = "string" /\ to_str_ok(k[2])
                /\ \A k \in DOMAIN t : JsonShaped(t[k])
      [] OTHER -> FALSE

----------------------------------------------------------------------------
\* C19: when store_document(ns, id, key, text) has returned with success,
\* get(ns, key) is text and the side-index entry of id is key; and every hit
\* of semantic_search whose id has a side-index entry naming a key with a
\* value carries that key and that value, so that the hits for id carry key
\* and text until one of the two entries is overwritten or deleted.
StoredDocumentResolves ==
    /\ last.op = "store_document" /\ last.ok =>
           /\ db_get(call.name, call.key) = {call.text}
           /\ db_get(call.name, VidxKey(call.id)) = {call.key}
    /\ last.op = "semantic_search" =>
           \A h \in last.hits :
               LET key == db_get(last.name, VidxKey(h.id))
               IN  key # {} /\ db_get(last.name, CHOOSE x \in key : TRUE) # {} =>
                       /\ h.key = key
                       /\ h.content = db_get(last.name, CHOOSE x \in key : TRUE)

----------------------------------------------------------------------------
\* C20: the number of threads inside EmbeddingWrapper::generate never
\* exceeds max_concurrent_embedding, whichever entry point each came through.
EmbeddingsWithinCeiling ==
    Cardinality({t \in Threads : pc[t] # "idle"}) <= max_concurrent_embedding

----------------------------------------------------------------------------
\* the limit a scan call ran with, and the stored keys that start with its prefix
ScanLimit == IF last.limit = {} THEN 100 ELSE CHOOSE x \in last.limit : TRUE

ScanMatching ==
    {k \in DOMAIN dirs[last.name].kv : starts_with(k, last.prefix)}

Utf8Only(name) ==
    \A k \in DOMAIN dirs[name].kv : to_str_ok(k) /\ to_str_ok(dirs[name].kv[k])

\* C21 as stated: scan returns only pairs whose key starts with the prefix,
\* each with its current value, and exactly min(limit, number of keys with
\* the prefix) of them.
ScanReturnsMatchingPairs ==
    last.op = "scan" /\ last.ok =>
        /\ \A r \in last.results :
               /\ r.raw \in ScanMatching
               /\ r.key = r.raw
               /\ db_get(last.name, r.raw) = {r.value}
        /\ Cardinality(last.results) =
               IF Cardinality(ScanMatching) < ScanLimit THEN Cardinality(ScanMatching)
               ELSE ScanLimit

\* C21: over a namespace whose keys and values are valid UTF-8, scan returns
\* only pairs whose key starts with the prefix, each with its current value,
\* and exactly min(limit, number of keys with the prefix) of them, limit
\* being 100 when omitted; in any namespace each returned pair is a stored
\* pair with the bytes that are not UTF-8 replaced by U+FFFD, and its key so
\* read starts with the prefix.
ScanReturnsMatchingText ==
    last.op = "scan" /\ last.ok =>
        /\ \A r \in last.results :
               /\ r.raw \in DOMAIN dirs[last.name].kv
               /\ r.key = from_utf8_lossy(r.raw)
               /\ starts_with(r.key, last.prefix)
               /\ r.value = from_utf8_lossy(dirs[last.name].kv[r.raw])
        /\ Utf8Only(last.name) =>
               /\ \A r \in last.results :
                      /\ r.raw \in ScanMatching
                      /\ r.key = r.raw
                      /\ db_get(last.name, r.raw) = {r.value}
               /\ Cardinality(last.results) =
                      IF Cardinality(ScanMatching) < ScanLimit
                      THEN Cardinality(ScanMatching) ELSE ScanLimit

ScanReturnsMatchingTextWitness ==
    /\ last.op = "scan"
    /\ last.ok
    /\ last.prefix = <<"a">>
    /\ last.limit = {1}
    /\ Utf8Only("docs")
    /\ {<<"a">>, <<"a", "b">>, <<"b">>} \subseteq DOMAIN dirs["docs"].kv
    /\ Cardinality(last.results) = 1

----------------------------------------------------------------------------
\* a blocked symbol followed by "(" occurs in the script
CallShapedOccurrence ==
    \E p \in blocked_functions, i \in 1..Len(last.code) :
        /\ i + Len(p) <= Len(last.code)
        /\ SubSeq(last.code, i, i + Len(p) - 1) = p
        /\ i > 1 => last.code[i - 1] \in {".", "(", "--", "\n"}
        /\ \E j \in (i + Len(p))..Len(last.code) :
               /\ last.code[j] = "("
               /\ \A m \in (i + Len(p))..(j - 1) : last.code[m] = "\n"

\* the module of a blocked symbol occurs in the script as a name of its own
ModuleReference ==
    \E p \in blocked_functions, i \in 1..Len(last.code) :
        /\ Len(p) > 1
        /\ last.code[i] = p[1]
        /\ i > 1 => last.code[i - 1] \in {".", "(", "--", "\n"}
        /\ i < Len(last.code) => last.code[i + 1] \in {".", "(", "--", "\n"}

\* C22: valid is false exactly when an error was produced, that is when the
\* script has a call-shaped occurrence of a blocked symbol or a reference to
\* its module, each reported as ForbiddenFunction, or does not compile; a
\* warning alone leaves the result valid, and the catalog is attached either
\* way.
InvalidExactlyOnError ==
    last.op = "validate" =>
        /\ last.valid <=> last.errors = {}
        /\ ~last.valid <=> (CallShapedOccurrence \/ ModuleReference \/ ~last.compiles)
        /\ CallShapedOccurrence \/ ModuleReference =>
               \E e \in last.errors : e.error_type = "ForbiddenFunction"
        /\ last.available_functions = CatalogFns

----------------------------------------------------------------------------
\* C23: while a script runs as a principal that EmbeddedLiath::new did not
\* add ("agent" here, "test_user" in the tests), the create_namespace, insert
\* and select closures bound for it pass their authorization check, so that
\* its calls of them succeed.
UnlistedPrincipalIsServed ==
    \A t \in Threads :
        Evaluating(t) /\ principal[t] \notin ever_added =>
            \A g \in {"create_namespace", "insert", "select"} :
                globals[g].kind = "bound" /\ globals[g].user = principal[t] =>
                    ~Denied(globals[g])

----------------------------------------------------------------------------
\* C24: create_namespace and delete_namespace hold the namespace table
\* exclusively from their check to their mutation: at most one caller is
\* inside either of them, no lookup runs while one is, and a create that
\* has passed its existence check still finds the name absent when it
\* inserts, so of two concurrent creates of one name only one succeeds.
TableHeldExclusively ==
    /\ Cardinality(table_writers) <= 1
    /\ table_readers # {} => table_writers = {}
    /\ \A t \in Threads :
          pc[t].at = "checked" => pc[t].name \notin DOMAIN namespaces

\* C24 witness: one caller has passed the existence check of a name while
\* the other waits with a create of the same name
TableHeldWitness ==
    \E t, u \in Threads :
        /\ t # u
        /\ pc[t].at = "checked"
        /\ pc[u].at = "manager"
        /\ pc[u].op = "create_namespace"
        /\ pc[u].name = pc[t].name

----------------------------------------------------------------------------
\* C25: the authorization check of every bound function a script invokes
\* is made against the principal of the execute call that runs the script,
\* never against the principal another execute call bound the closure for.
ChecksAgainstCaller ==
    call.kind = "bound" /\ call.checked => call.own

----------------------------------------------------------------------------
\* C26: an invocation of a bound function that is denied for lack of
\* permission changes nothing: the namespace table with every vector
\* index, every namespace's keys and values, the config records, the
\* stored files and packages and the free embedding permits are the same
\* after the denied call as before it.
DeniedCallChangesNothing ==
    [][(call'.kind = "bound" /\ call'.outcome = "unauthorized")
          => /\ namespaces' = namespaces
             /\ metadata_db' = metadata_db
             /\ dirs' = dirs
             /\ files' = files
             /\ installed_packages' = installed_packages
             /\ available_permits' = available_permits]_vars

\* C26 witness: a call was denied while a namespace with a key exists
DeniedCallWitness ==
    /\ call.kind = "bound"
    /\ call.outcome = "unauthorized"
    /\ \E n \in DOMAIN namespaces : n \in DOMAIN dirs /\ DOMAIN dirs[n].kv # {}

----------------------------------------------------------------------------
\* the config records and the table name the same namespaces, and each
\* record parses to the dimensions, metric and scalar of its table entry
RecordsAgree ==
    /\ DOMAIN metadata_db = DOMAIN namespaces
    /\ \A n \in DOMAIN namespaces :
          /\ metadata_db[n].dimensions = namespaces[n].dimensions
          /\ parse_metric(metadata_db[n].metric) = namespaces[n].metric
          /\ parse_scalar(metadata_db[n].scalar) = namespaces[n].scalar

\* C27: a create_namespace or delete_namespace that returns success keeps
\* the config records equal to the table (they are equal at construction),
\* and a manager constructed over records that equal the table has exactly
\* the table's names, each with its dimensions, metric and scalar.
ConfigRecordsMatchTable ==
    [][RecordsAgree =>
          /\ (last'.op \in {"create_namespace", "delete_namespace"} /\ last'.ok)
                => RecordsAgree'
          /\ (last'.op = "new" /\ last'.ok)
                => /\ DOMAIN namespaces' = DOMAIN namespaces
                   /\ \A n \in DOMAIN namespaces :
                         /\ namespaces'[n].dimensions = namespaces[n].dimensions
                         /\ namespaces'[n].metric = namespaces[n].metric
                         /\ namespaces'[n].scalar = namespaces[n].scalar]_vars

----------------------------------------------------------------------------
\* C28: a delete_namespace that returns an error, for an absent name or for
\* a config record or directory that could not be removed, leaves the
\* table as it was: every namespace get_namespace returned before the
\* call it still returns.
FailedDeleteKeepsTable ==
    [][(last'.op = "delete_namespace" /\ ~last'.ok)
          => /\ namespaces' = namespaces
             /\ \A n \in Names : (get_namespace(n))' = get_namespace(n)]_vars

----------------------------------------------------------------------------
\* C29: a put that returns success wrote to a namespace that was in the
\* table at the moment of the write, and a put that lost the race with
\* delete_namespace fails with namespace-not-found: no put goes through a
\* handle obtained before the deletion.
WriteReachesLiveNamespace ==
    last.op = "put" =>
        \/ last.ok /\ last.handle = "live"
        \/ ~last.ok /\ last.err = "not found"

----------------------------------------------------------------------------
\* thread t waits for thread u: t's next operation acquires a lock that u
\* holds in a conflicting mode, or acquires for reading a lock that u is
\* queued to write (a lock that prefers writers makes the reader wait)
WaitsFor(t, u) ==
    /\ pc[t].rest # <<>>
    /\ Head(pc[t].rest)[1] = "acq"
    /\ LET l == Head(pc[t].rest)[2]
           m == Head(pc[t].rest)[3]
       IN \/ IF m = "w" THEN HeldModes(u, l) # {} ELSE "w" \in HeldModes(u, l)
          \/ /\ m = "r"
             /\ u # t
             /\ pc[u].rest # <<>>
             /\ Head(pc[u].rest) = <<"acq", l, "w">>

====
